---- MODULE Spec2Model ----
(***************************************************************************)
(* Claude Code -> OpenCode bridge: the hook engine (src/hooks.py), the     *)
(* command executor (src/commands.py), the loader (src/loader.py) and the  *)
(* Bridge facade (src/__init__.py).                                        *)
(*                                                                         *)
(* Text is modelled as sequences of one-character strings, so that the     *)
(* string operations of the code (replace, regular-expression matching,    *)
(* f-string formatting) are computed character by character.               *)
(***************************************************************************)
EXTENDS Integers, Sequences, FiniteSets, TLC

VARIABLES
    hooks,                \* HookEngine.hooks: event-type string -> list of HookConfig
    executed_once_hooks,  \* HookEngine.executed_once_hooks: set of hook ids
    prompt_executor,      \* HookEngine.prompt_executor: registered or None
    agent_executor,       \* HookEngine.agent_executor: registered or None
    dispatched,           \* per registered hook, how often _execute_hook ran it
    calls,                \* number of execute calls made so far
    lastCall,             \* the last execute call: its inputs, its dispatch log, its result
    cmdRun,               \* one call of _execute_command_hook: its inputs and what it did
    hookRun,              \* one call of _execute_hook: its inputs and its result
    parsed,               \* one call of parse_frontmatter: the document and what it gave
    tools,                \* one call of parse_allowed_tools: the value and what it gave
    frames,               \* the execute calls in progress, the innermost last
    prep,                 \* one call of prepare_prompt: its inputs, the project files, the
                          \* shell, and the text after each stage
    fs,                   \* what is on disk under the project root and the bridge's plugins
    registry,             \* BridgeLoader.registry: the BridgeRegistry the loader fills
    bridge_registry,      \* Bridge.registry: None, or the loader's registry once assigned
    loads,                \* number of load_all runs so far
    outcome               \* the last call of a public Bridge operation and how it ended

hookVars == <<hooks, executed_once_hooks, prompt_executor, agent_executor,
              dispatched, calls, lastCall>>

bridgeVars == <<fs, registry, bridge_registry, loads, outcome>>

\* the calls of single functions
callVars == <<hookRun, parsed, tools, frames>>

vars == <<hookVars, cmdRun, prep, callVars, bridgeVars>>

--------------------------------------------------------------------------
(* Bounds of the model *)

\* most hooks registered in one engine (over all event types)
MaxHooks == 2
\* most execute calls in one behaviour
MaxCalls == 2

--------------------------------------------------------------------------
(* Text helpers *)

None == <<"<None>">>
\* a registered executor function
Callable == <<"<callable>">>

s_None == <<"N","o","n","e">>
s_colon == <<":">>
s_PreToolUse == <<"P","r","e","T","o","o","l","U","s","e">>
s_PostToolUse == <<"P","o","s","t","T","o","o","l","U","s","e">>
s_Stop == <<"S","t","o","p">>
s_command == <<"c","o","m","m","a","n","d">>
s_prompt == <<"p","r","o","m","p","t">>
s_agent == <<"a","g","e","n","t">>
s_webhook == <<"w","e","b","h","o","o","k">>
s_any == <<".","*">>
s_WriteOrEdit == <<"W","r","i","t","e","|","E","d","i","t">>
s_bash == <<"b","a","s","h">>
s_badre == <<"(">>
s_anyOrX == <<".","*","|","x">>
s_anyOrXColon == <<".","*","|","x",":">>
s_Write == <<"W","r","i","t","e">>
s_WriteFile == <<"W","r","i","t","e","F","i","l","e">>
s_edit == <<"e","d","i","t">>
s_Bash == <<"B","a","s","h">>
s_Read == <<"R","e","a","d">>
s_c1 == <<"c","1">>
s_c2 == <<"c","2">>
s_ok == <<"o","k">>
s_Blocked == <<"B","l","o","c","k","e","d">>
s_BLOCK == <<"B","L","O","C","K">>

UpperCase == <<"A","B","C","D","E","F","G","H","I","J","K","L","M",
               "N","O","P","Q","R","S","T","U","V","W","X","Y","Z">>
LowerCase == <<"a","b","c","d","e","f","g","h","i","j","k","l","m",
               "n","o","p","q","r","s","t","u","v","w","x","y","z">>

\* str.upper() on one character
UpperChar(c) ==
    IF \E i \in 1..26 : LowerCase[i] = c
    THEN UpperCase[CHOOSE i \in 1..26 : LowerCase[i] = c]
    ELSE c

\* str.upper()
Upper(s) == [i \in 1..Len(s) |-> UpperChar(s[i])]

\* needle in haystack (Python's `in` on strings)
Contains(haystack, needle) ==
    \E i \in 1..(Len(haystack) - Len(needle) + 1) :
        SubSeq(haystack, i, i + Len(needle) - 1) = needle

\* Python truthiness of an Optional[str]: None and "" are falsy
Truthy(v) == v # None /\ v # <<>>

\* str(v) inside an f-string
Format(v) == IF v = None THEN s_None ELSE v

--------------------------------------------------------------------------
(* src/hooks.py: data *)

\* HookType: the values of the enumeration
HookType == {s_PreToolUse, s_PostToolUse, <<"P","o","s","t","T","o","o","l","U","s","e","F","a","i","l","u","r","e">>,
             s_Stop, <<"S","e","s","s","i","o","n","S","t","a","r","t">>,
             <<"S","e","s","s","i","o","n","E","n","d">>,
             <<"S","u","b","a","g","e","n","t","S","t","a","r","t">>,
             <<"S","u","b","a","g","e","n","t","S","t","o","p">>,
             <<"P","e","r","m","i","s","s","i","o","n","R","e","q","u","e","s","t">>}

\* HookResult
CONTINUE == "CONTINUE"
ERROR == "ERROR"
BLOCK == "BLOCK"
HookResult == {CONTINUE, ERROR, BLOCK}

\* HookConfig.timeout default (seconds)
DefaultTimeout == 600

\* dict.get(key, default)
Get(d, k, default) == IF k \in DOMAIN d THEN d[k] ELSE default

\* HookConfig(...) as load_hooks builds it from one hook dictionary
HookConfig(hook_dict) ==
    [type    |-> Get(hook_dict, "type", s_command),
     matcher |-> Get(hook_dict, "matcher", s_any),
     command |-> Get(hook_dict, "command", None),
     prompt  |-> Get(hook_dict, "prompt", None),
     agent   |-> Get(hook_dict, "agent", None),
     timeout |-> Get(hook_dict, "timeout", DefaultTimeout),
     once    |-> Get(hook_dict, "once", FALSE)]

--------------------------------------------------------------------------
(* re.match(matcher, tool_name, re.IGNORECASE) for patterns built from    *)
(* literal characters, ".", "*" and "|"; an unbalanced "(" stands for the *)
(* patterns re.compile rejects with re.error.                             *)

Bars(p) == {i \in 1..Len(p) : p[i] = "|"}

\* the alternatives of p, split at the top-level "|"
Alternatives(p) ==
    {SubSeq(p, a + 1, b - 1) :
        <<a, b>> \in {ab \in (Bars(p) \cup {0}) \X (Bars(p) \cup {Len(p) + 1}) :
                        /\ ab[1] < ab[2]
                        /\ ~\E k \in Bars(p) : ab[1] < k /\ k < ab[2]}}

\* re.error: unterminated group, or "*" with nothing to repeat
ReError(p) ==
    \/ Cardinality({i \in 1..Len(p) : p[i] = "("}) # Cardinality({i \in 1..Len(p) : p[i] = ")"})
    \/ \E alt \in Alternatives(p) : Len(alt) > 0 /\ alt[1] = "*"

\* one pattern atom against one character, ignoring case
AtomMatch(a, c) == IF a = "." THEN c # "\n" ELSE UpperChar(a) = UpperChar(c)

RECURSIVE MatchHere(_, _, _, _)
\* does alt[i..] match a prefix of s[j..] ?
MatchHere(alt, i, s, j) ==
    IF i > Len(alt) THEN TRUE
    ELSE IF i + 1 <= Len(alt) /\ alt[i + 1] = "*"
    THEN \E k \in 0..(Len(s) - j + 1) :
            /\ \A n \in j..(j + k - 1) : AtomMatch(alt[i], s[n])
            /\ MatchHere(alt, i + 2, s, j + k)
    ELSE /\ j <= Len(s)
         /\ AtomMatch(alt[i], s[j])
         /\ MatchHere(alt, i + 1, s, j + 1)

\* _matches as a match of the whole tool name: the end mark stands behind both
_matches_FullMatch(matcher, tool_name) ==
    IF ReError(matcher) THEN FALSE
    ELSE \E alt \in Alternatives(matcher) :
            MatchHere(alt \o <<"$">>, 1, tool_name \o <<"$">>, 1)

\* HookEngine._matches
_matches(matcher, tool_name) ==
    IF ReError(matcher) THEN FALSE
    ELSE \E alt \in Alternatives(matcher) : MatchHere(alt, 1, tool_name, 1)

\* HookContext.tool_name
ToolNames == {s_WriteFile, s_edit, s_Bash}

\* the matchers of the hooks of the model
Matchers == {s_any, s_WriteOrEdit, s_bash, s_badre, s_anyOrX, s_anyOrXColon}

\* a tool name that holds the word bash, but not at its start
s_RunBash == <<"R","u","n","B","a","s","h">>

\* _matches, evaluated once for every matcher and tool name of the model
MatchTable == [m \in Matchers |-> [t \in ToolNames \cup {s_RunBash} |-> _matches(m, t)]]

\* the call self._matches(hook.matcher, context.tool_name) of execute
Matches(matcher, tool_name) == MatchTable[matcher][tool_name]


--------------------------------------------------------------------------
(* src/hooks.py: what the environment does when a hook is run             *)

\* subprocess.run of a command hook: the process exits with a return code,
\* exceeds the timeout (TimeoutExpired) or cannot be started (OSError)
ReturnCodes == {0, 1, 2, -9}
ProcOutcomes ==
    {[kind |-> "exit", returncode |-> rc] : rc \in ReturnCodes}
        \cup {[kind |-> "timeout", returncode |-> 0], [kind |-> "oserror", returncode |-> 0]}

\* a call of the registered prompt / agent executor: it returns a value or raises
ReplyOutcomes ==
    {[kind |-> "returns", value |-> v] : v \in {s_ok, s_Blocked, <<>>, None}}
        \cup {[kind |-> "raises", value |-> None]}

\* the placeholder answer for a hook that starts no process and calls no executor
NoEnv == [proc |-> [kind |-> "oserror", returncode |-> 0],
          reply |-> [kind |-> "raises", value |-> None]]

\* the subprocess outcomes drawn in the dispatch loop: TimeoutExpired and the
\* other exceptions are drawn where _execute_command_hook is checked by itself
LoopProcOutcomes == {p \in ProcOutcomes : p.kind = "exit" /\ p.returncode \in {0, 1, 2}}

\* the environment's answers to one hook, were it run
EnvFor(hook, pexec, aexec) ==
    IF hook.type = s_command /\ hook.command # None /\ hook.command # <<>>
    THEN {[proc |-> p, reply |-> NoEnv.reply] : p \in LoopProcOutcomes}
    ELSE IF \/ hook.type = s_prompt /\ hook.prompt # None /\ hook.prompt # <<>> /\ pexec # None
            \/ hook.type = s_agent /\ hook.agent # None /\ hook.agent # <<>> /\ aexec # None
    THEN {[proc |-> NoEnv.proc, reply |-> r] : r \in ReplyOutcomes}
    ELSE {NoEnv}


--------------------------------------------------------------------------
(* src/hooks.py: HookEngine *)

\* load_hooks that puts the new hooks in front of the registered ones
load_hooks_Prepends(hs, hooks_data) ==
    [t \in (DOMAIN hs) \cup (DOMAIN hooks_data) |->
        (IF t \in DOMAIN hooks_data
         THEN [i \in 1..Len(hooks_data[t]) |-> HookConfig(hooks_data[t][i])]
         ELSE <<>>)
            \o (IF t \in DOMAIN hs THEN hs[t] ELSE <<>>)]

\* HookEngine.load_hooks: the lists after appending hooks_data, a mapping
\* event-type string -> list of hook dictionaries
load_hooks(hs, hooks_data) ==
    [t \in (DOMAIN hs) \cup (DOMAIN hooks_data) |->
        (IF t \in DOMAIN hs THEN hs[t] ELSE <<>>)
            \o (IF t \in DOMAIN hooks_data
                THEN [i \in 1..Len(hooks_data[t]) |-> HookConfig(hooks_data[t][i])]
                ELSE <<>>)]

\* _execute_command_hook with the timeout taken for a veto
_execute_command_hook_TimeoutBlocks(hook, env) ==
    IF ~Truthy(hook.command) THEN ERROR
    ELSE IF env.proc.kind = "exit"
         THEN IF env.proc.returncode = 0 THEN CONTINUE
              ELSE IF env.proc.returncode = 2 THEN BLOCK
              ELSE ERROR
         ELSE IF env.proc.kind = "timeout" THEN BLOCK ELSE ERROR

\* HookEngine._execute_command_hook
_execute_command_hook(hook, env) ==
    IF ~Truthy(hook.command) THEN ERROR
    ELSE IF env.proc.kind = "exit"
         THEN IF env.proc.returncode = 0 THEN CONTINUE
              ELSE IF env.proc.returncode = 2 THEN BLOCK
              ELSE ERROR
         ELSE ERROR  \* TimeoutExpired, or any other exception

\* HookEngine._execute_command_hook: the number of subprocess.run calls it makes
SubprocessRuns(hook, env) == IF ~Truthy(hook.command) THEN 0 ELSE 1

\* ReplyResult that looks for "BLOCK" in the reply as it is
ReplyResult_CaseSensitive(reply) ==
    IF reply.kind = "raises" THEN ERROR
    ELSE IF reply.value = None THEN CONTINUE
    ELSE IF reply.value # <<>> /\ Contains(reply.value, s_BLOCK) THEN BLOCK
    ELSE CONTINUE

\* the BLOCK test of the prompt and agent hooks on the executor's reply;
\* a reply that is not a string makes result.upper() raise inside the try
ReplyResult(reply) ==
    IF reply.kind = "raises" THEN ERROR
    ELSE IF reply.value = None THEN CONTINUE   \* `result and ...` is falsy
    ELSE IF reply.value # <<>> /\ Contains(Upper(reply.value), s_BLOCK) THEN BLOCK
    ELSE CONTINUE

\* _execute_prompt_hook with a veto where no executor is registered
_execute_prompt_hook_BlocksWithoutExecutor(hook, executor, env) ==
    IF ~Truthy(hook.prompt) THEN ERROR
    ELSE IF executor = None THEN BLOCK
    ELSE ReplyResult(env.reply)

\* HookEngine._execute_prompt_hook
_execute_prompt_hook(hook, executor, env) ==
    IF ~Truthy(hook.prompt) \/ executor = None THEN ERROR
    ELSE ReplyResult(env.reply)

\* HookEngine._execute_agent_hook
_execute_agent_hook(hook, executor, env) ==
    IF ~Truthy(hook.agent) \/ executor = None THEN ERROR
    ELSE ReplyResult(env.reply)

\* HookEngine._execute_hook
_execute_hook(hook, pexec, aexec, env) ==
    IF hook.type = s_command THEN _execute_command_hook(hook, env)
    ELSE IF hook.type = s_prompt THEN _execute_prompt_hook(hook, pexec, env)
    ELSE IF hook.type = s_agent THEN _execute_agent_hook(hook, aexec, env)
    ELSE ERROR

\* `hook.command or hook.prompt or hook.agent`
Payload(hook) ==
    IF Truthy(hook.command) THEN hook.command
    ELSE IF Truthy(hook.prompt) THEN hook.prompt
    ELSE hook.agent

\* hook_id = f"{type_str}:{hook.matcher}:{hook.command or hook.prompt or hook.agent}"
HookId(type_str, hook) ==
    type_str \o s_colon \o Format(hook.matcher) \o s_colon \o Format(Payload(hook))

\* HandleResult without the early return on BLOCK
HandleResult_NoShortCircuit(hook_result, result) ==
    IF hook_result = BLOCK THEN [return |-> FALSE, result |-> BLOCK]
    ELSE IF hook_result = ERROR THEN [return |-> FALSE, result |-> ERROR]
    ELSE [return |-> FALSE, result |-> result]

\* HandleResult that stops the loop at the first ERROR
HandleResult_ErrorStops(hook_result, result) ==
    IF hook_result = BLOCK THEN [return |-> TRUE, result |-> BLOCK]
    ELSE IF hook_result = ERROR THEN [return |-> TRUE, result |-> ERROR]
    ELSE [return |-> FALSE, result |-> result]

\* what the loop does with the outcome of one hook (lines 154-158)
HandleResult(hook_result, result) ==
    IF hook_result = BLOCK THEN [return |-> TRUE, result |-> BLOCK]
    ELSE IF hook_result = ERROR THEN [return |-> FALSE, result |-> ERROR]
    ELSE [return |-> FALSE, result |-> result]

\* whether the loop skips the hook because of its once flag (line 144)
OnceSkip(hook, hook_id, fired) == hook.once /\ hook_id \in fired

\* MarkOnce that records every executed hook, with or without the once flag
MarkOnce_EveryHook(hook, hook_id, fired) == fired \cup {hook_id}

\* MarkOnce that never records the hook as fired
MarkOnce_Forgets(hook, hook_id, fired) == fired

\* the once set after the hook was executed (lines 151-152)
MarkOnce(hook, hook_id, fired) == IF hook.once THEN fired \cup {hook_id} ELSE fired

RECURSIVE ExecuteLoop_MarksSuccessOnly(_, _, _, _, _, _, _, _)
\* the loop with a once hook recorded as fired only when it resolved to CONTINUE
ExecuteLoop_MarksSuccessOnly(type_str, hs, i, tool_name, pexec, aexec, env, st) ==
    IF i > Len(hs) THEN st
    ELSE IF ~Matches(hs[i].matcher, tool_name)
    THEN ExecuteLoop_MarksSuccessOnly(type_str, hs, i + 1, tool_name, pexec, aexec, env, st)
    ELSE IF OnceSkip(hs[i], HookId(type_str, hs[i]), st.fired)
    THEN ExecuteLoop_MarksSuccessOnly(type_str, hs, i + 1, tool_name, pexec, aexec, env, st)
    ELSE LET hook_result == _execute_hook(hs[i], pexec, aexec, env[i])
             handled == HandleResult(hook_result, st.result)
             st2 == [result |-> handled.result,
                     fired  |-> IF hook_result = CONTINUE
                                THEN MarkOnce(hs[i], HookId(type_str, hs[i]), st.fired)
                                ELSE st.fired,
                     log    |-> Append(st.log, [idx |-> i, env |-> env[i], result |-> hook_result])]
         IN IF handled.return THEN st2
            ELSE ExecuteLoop_MarksSuccessOnly(type_str, hs, i + 1, tool_name, pexec, aexec, env, st2)

RECURSIVE ExecuteLoop(_, _, _, _, _, _, _, _)
\* the for loop of HookEngine.execute from hook number i on; st holds the local
\* `result`, the once set and the log of the hooks executed so far
ExecuteLoop(type_str, hs, i, tool_name, pexec, aexec, env, st) ==
    IF i > Len(hs) THEN st
    ELSE IF ~Matches(hs[i].matcher, tool_name)
    THEN ExecuteLoop(type_str, hs, i + 1, tool_name, pexec, aexec, env, st)
    ELSE IF OnceSkip(hs[i], HookId(type_str, hs[i]), st.fired)
    THEN ExecuteLoop(type_str, hs, i + 1, tool_name, pexec, aexec, env, st)
    ELSE LET hook_result == _execute_hook(hs[i], pexec, aexec, env[i])
             handled == HandleResult(hook_result, st.result)
             st2 == [result |-> handled.result,
                     fired  |-> MarkOnce(hs[i], HookId(type_str, hs[i]), st.fired),
                     log    |-> Append(st.log, [idx |-> i, env |-> env[i], result |-> hook_result])]
         IN IF handled.return THEN st2
            ELSE ExecuteLoop(type_str, hs, i + 1, tool_name, pexec, aexec, env, st2)

\* HookEngine.execute: the returned result, the once set and the dispatch log
execute(hs, fired, type_str, tool_name, pexec, aexec, env) ==
    IF type_str \notin DOMAIN hs
    THEN [result |-> CONTINUE, fired |-> fired, log |-> <<>>]
    ELSE ExecuteLoop(type_str, hs[type_str], 1, tool_name, pexec, aexec, env,
                     [result |-> CONTINUE, fired |-> fired, log |-> <<>>])

--------------------------------------------------------------------------
(* The hook engine as a state machine *)

\* the hook dictionaries handed to load_hooks
CommandPool ==
    {[type |-> s_command, command |-> s_c1, once |-> TRUE],
     [matcher |-> s_WriteOrEdit, command |-> s_c2],
     [type |-> s_prompt, prompt |-> s_c1, once |-> TRUE],
     [type |-> s_command, matcher |-> s_bash, once |-> TRUE, timeout |-> 5]}

\* the event types hooks are loaded for, and the ones dispatched
LoadTypes == {s_PreToolUse, s_PostToolUse}
ExecTypes == {s_PreToolUse, s_PostToolUse}

\* number of hooks registered
Total(hs) ==
    LET RECURSIVE Sum(_)
        Sum(D) == IF D = {} THEN 0
                  ELSE LET t == CHOOSE t \in D : TRUE IN Len(hs[t]) + Sum(D \ {t})
    IN Sum(DOMAIN hs)

\* lists of 1..n hook dictionaries
HookLists(pool, n) == UNION {[1..k -> pool] : k \in 1..n}

\* the arguments of load_hooks that keep the engine within MaxHooks
HooksData(pool, room) ==
    {d \in UNION {[D -> HookLists(pool, room + 1 - Cardinality(D))] : D \in (SUBSET LoadTypes) \ {{}}} :
        Total(d) <= room}

RECURSIVE EnvSeqs(_, _, _, _)
\* the environment's answers to each hook of a list that matches tool_name
EnvSeqs(hs, tool_name, pexec, aexec) ==
    IF hs = <<>> THEN {<<>>}
    ELSE {Append(e, x) : e \in EnvSeqs(SubSeq(hs, 1, Len(hs) - 1), tool_name, pexec, aexec),
                         x \in IF Matches(hs[Len(hs)].matcher, tool_name)
                               THEN EnvFor(hs[Len(hs)], pexec, aexec) ELSE {NoEnv}}

NoCall == [type |-> <<>>, tool_name |-> <<>>, hs |-> <<>>, firedBefore |-> {},
           prompt_executor |-> None, agent_executor |-> None,
           log |-> <<>>, result |-> CONTINUE]

InitHooks ==
    /\ hooks = <<>>
    /\ executed_once_hooks = {}
    /\ prompt_executor = None
    /\ agent_executor = None
    /\ dispatched = <<>>
    /\ calls = 0
    /\ lastCall = NoCall

\* HookEngine.register_prompt_executor
RegisterPromptExecutor ==
    /\ prompt_executor = None
    /\ prompt_executor' = Callable
    /\ UNCHANGED <<hooks, executed_once_hooks, agent_executor, dispatched, calls, lastCall>>
    /\ UNCHANGED <<cmdRun, prep, callVars, bridgeVars>>

\* HookEngine.register_agent_executor
RegisterAgentExecutor ==
    /\ agent_executor = None
    /\ agent_executor' = Callable
    /\ UNCHANGED <<hooks, executed_once_hooks, prompt_executor, dispatched, calls, lastCall>>
    /\ UNCHANGED <<cmdRun, prep, callVars, bridgeVars>>

\* HookEngine.load_hooks(hooks_data)
LoadHooks(pool) ==
    /\ Total(hooks) < MaxHooks
    /\ \E hooks_data \in HooksData(pool, MaxHooks - Total(hooks)) :
        /\ hooks' = load_hooks(hooks, hooks_data)
        /\ dispatched' = [t \in DOMAIN hooks' |->
                            [i \in 1..Len(hooks'[t]) |->
                                IF t \in DOMAIN hooks /\ i <= Len(hooks[t])
                                THEN dispatched[t][i] ELSE 0]]
    /\ UNCHANGED <<executed_once_hooks, prompt_executor, agent_executor, calls, lastCall>>
    /\ UNCHANGED <<cmdRun, prep, callVars, bridgeVars>>

\* the hooks of type_str, as execute iterates over them
HooksOf(hs, type_str) == IF type_str \in DOMAIN hs THEN hs[type_str] ELSE <<>>

\* a call of execute that also takes the once hooks recorded as fired out of
\* the list it iterated over
ExecuteWith_DropsFiredHooks(type_str, tool_name, env) ==
    LET hs == HooksOf(hooks, type_str)
        r == execute(hooks, executed_once_hooks, type_str, tool_name,
                     prompt_executor, agent_executor, env)
        ran == {r.log[k].idx : k \in 1..Len(r.log)}
    IN /\ executed_once_hooks' = r.fired
       /\ calls' = calls + 1
       /\ lastCall' = [type |-> type_str, tool_name |-> tool_name, hs |-> hs,
                       firedBefore |-> executed_once_hooks,
                       prompt_executor |-> prompt_executor,
                       agent_executor |-> agent_executor,
                       log |-> r.log, result |-> r.result]
       /\ dispatched' = [t \in DOMAIN hooks |->
                            [i \in 1..Len(hooks[t]) |->
                                IF t = type_str /\ i \in ran
                                THEN dispatched[t][i] + 1 ELSE dispatched[t][i]]]
       /\ hooks' = [t \in DOMAIN hooks |->
                        SelectSeq(hooks[t],
                                  LAMBDA h : ~(h.once /\ HookId(t, h) \in r.fired))]
       /\ UNCHANGED <<prompt_executor, agent_executor>>
       /\ UNCHANGED <<cmdRun, prep, callVars, bridgeVars>>

\* one call HookEngine.execute(hook_type, context): what it leaves in the engine,
\* given the answers of the environment to the hooks it runs
ExecuteWith(type_str, tool_name, env) ==
    LET hs == HooksOf(hooks, type_str)
        r == execute(hooks, executed_once_hooks, type_str, tool_name,
                     prompt_executor, agent_executor, env)
        ran == {r.log[k].idx : k \in 1..Len(r.log)}
    IN /\ executed_once_hooks' = r.fired
       /\ calls' = calls + 1
       /\ lastCall' = [type |-> type_str, tool_name |-> tool_name, hs |-> hs,
                       firedBefore |-> executed_once_hooks,
                       prompt_executor |-> prompt_executor,
                       agent_executor |-> agent_executor,
                       log |-> r.log, result |-> r.result]
       /\ dispatched' = [t \in DOMAIN hooks |->
                            [i \in 1..Len(hooks[t]) |->
                                IF t = type_str /\ i \in ran
                                THEN dispatched[t][i] + 1 ELSE dispatched[t][i]]]
       /\ UNCHANGED <<hooks, prompt_executor, agent_executor>>
       /\ UNCHANGED <<cmdRun, prep, callVars, bridgeVars>>

\* HookEngine.execute(hook_type, context) for one of the event types and one
\* of the tool names
ExecuteOn(types, tool_names) ==
    /\ calls < MaxCalls
    /\ \E type_str \in types, tool_name \in tool_names :
        \E env \in EnvSeqs(HooksOf(hooks, type_str), tool_name,
                           prompt_executor, agent_executor) :
            ExecuteWith(type_str, tool_name, env)

\* HookEngine.execute(hook_type, context)
Execute == ExecuteOn(ExecTypes, ToolNames)

\* load_hooks with the hook dictionaries of CommandPool
LoadCommandHooks == LoadHooks(CommandPool)

\* no call of _execute_command_hook by itself
IdleCommandHook == cmdRun = [phase |-> "idle"]

\* no call of prepare_prompt
IdlePrompt == prep = [phase |-> "idle"]

\* no call of _execute_hook, parse_frontmatter or parse_allowed_tools by itself,
\* no execute call in progress
IdleCalls ==
    /\ hookRun = [phase |-> "idle"]
    /\ parsed = [phase |-> "idle"]
    /\ tools = [phase |-> "idle"]
    /\ frames = <<>>

\* a dict, which keeps the order in which its keys were first set
EmptyDict == [keys |-> <<>>, map |-> <<>>]

\* BridgeRegistry()
BridgeRegistry ==
    [commands |-> EmptyDict, subagents |-> EmptyDict, skills |-> EmptyDict,
     plugins |-> EmptyDict, hooks |-> EmptyDict, executed_once_hooks |-> {}]

\* a file that is not there, and one whose text json.loads rejects
Missing == [t |-> "missing", v |-> <<>>]
Invalid == [t |-> "invalid", v |-> <<>>]

\* a directory without entries
EmptyDir == [name |-> <<>>, is_dir |-> TRUE, plugin_json |-> Missing, tree |-> <<>>,
             hooks_json |-> Missing, mcp_json |-> Missing]

\* Bridge() over an empty project, before any call
IdleBridge ==
    /\ fs = [root |-> EmptyDir, local_plugin |-> FALSE, plugin_dirs |-> <<>>,
             bridge_plugins |-> <<>>]
    /\ registry = BridgeRegistry
    /\ bridge_registry = None
    /\ loads = 0
    /\ outcome = [op |-> "none"]

Init == InitHooks /\ IdleCommandHook /\ IdlePrompt /\ IdleCalls /\ IdleBridge

\* the engine as HookEngine() leaves it: no executor is registered
Next ==
    \/ LoadCommandHooks
    \/ Execute

Spec == Init /\ [][Next]_vars

--------------------------------------------------------------------------
(* Claims about the hook engine (specification Spec) *)

\* the hooks the last execute call ran, by position in the list
Ran == {lastCall.log[k].idx : k \in 1..Len(lastCall.log)}

\* whether hook i of the last call was skipped as an already fired once hook:
\* fired before the call, or fired by an earlier hook of the same call
SkippedAsFired(i) ==
    /\ lastCall.hs[i].once
    /\ \/ HookId(lastCall.type, lastCall.hs[i]) \in lastCall.firedBefore
       \/ \E j \in Ran : /\ j < i
                         /\ lastCall.hs[j].once
                         /\ HookId(lastCall.type, lastCall.hs[j]) = HookId(lastCall.type, lastCall.hs[i])

\* the hooks of the last call that were due: the matcher matches the tool name
\* and the hook is not an already fired once hook
Due == {i \in 1..Len(lastCall.hs) :
            Matches(lastCall.hs[i].matcher, lastCall.tool_name) /\ ~SkippedAsFired(i)}

\* the last call was made on event type t with the hooks t has now, and its
\* context matches the single hook registered for t, a once hook
SingleOnceHookCall(t) ==
    /\ t \in DOMAIN hooks
    /\ Len(hooks[t]) = 1
    /\ hooks[t][1].once
    /\ lastCall.type = t
    /\ lastCall.hs = hooks[t]
    /\ Matches(hooks[t][1].matcher, lastCall.tool_name)

\* C1: over any sequence of execute calls a hook registered with once = true is
\* dispatched at most once; with one once hook registered for an event type,
\* after every matching execute call the hook has run exactly once, and the call
\* returned CONTINUE unless the hook ran in that very call and did not succeed
\* (so two calls with a succeeding hook return CONTINUE both times).
C1_OnceHookRunsOnce ==
    /\ \A t \in DOMAIN hooks : \A i \in 1..Len(hooks[t]) :
            hooks[t][i].once => dispatched[t][i] <= 1
    /\ \A t \in ExecTypes : SingleOnceHookCall(t) =>
            /\ dispatched[t][1] = 1
            /\ lastCall.log = <<>> => lastCall.result = CONTINUE
            /\ (lastCall.log # <<>> /\ lastCall.log[1].result = CONTINUE)
                    => lastCall.result = CONTINUE

\* C1 witness: the second matching call on a type whose single once hook ran,
\* successfully, in the first call: the hook is skipped, the result is CONTINUE
C1_Witness ==
    /\ calls = 2
    /\ \E t \in ExecTypes :
        /\ SingleOnceHookCall(t)
        /\ hooks[t][1].type = s_command
        /\ HookId(t, hooks[t][1]) \in lastCall.firedBefore
        /\ lastCall.log = <<>>
        /\ lastCall.result = CONTINUE
        /\ dispatched[t][1] = 1

\* C2: the first hook of a call that resolves to BLOCK ends the call: the call
\* returns BLOCK and no hook registered after it is executed in that call.
C2_BlockShortCircuits ==
    \A k \in 1..Len(lastCall.log) :
        lastCall.log[k].result = BLOCK =>
            /\ lastCall.result = BLOCK
            /\ \A j \in Ran : j <= lastCall.log[k].idx

\* C2 witness: a call that returned BLOCK while a later hook of the same event
\* type was due
C2_Witness ==
    /\ lastCall.result = BLOCK
    /\ \E i \in Due : i \notin Ran /\ \A j \in Ran : j < i

\* C7: in a call where no hook resolves to BLOCK every due hook is executed and
\* the result is ERROR if one of them resolved to ERROR and CONTINUE otherwise
\* (CONTINUE too when no hook is due or none is registered); an ERROR of an
\* earlier hook neither stops the later hooks nor keeps a later BLOCK from
\* becoming the result. Due means: the matcher matches and the hook is not an
\* already fired once hook.
C7_ErrorDoesNotStopDispatch ==
    LET log == lastCall.log
        blocked == \E k \in 1..Len(log) : log[k].result = BLOCK
        failed == \E k \in 1..Len(log) : log[k].result = ERROR
    IN /\ Ran \subseteq {i \in 1..Len(lastCall.hs) :
                            Matches(lastCall.hs[i].matcher, lastCall.tool_name)}
       /\ blocked => lastCall.result = BLOCK
       /\ ~blocked => /\ Due \subseteq Ran
                      /\ lastCall.result = IF failed THEN ERROR ELSE CONTINUE

\* C7 witness: a call in which a hook resolved to ERROR, a later hook was still
\* executed and resolved to CONTINUE, and the call returned ERROR
C7_Witness ==
    /\ Len(lastCall.log) >= 2
    /\ lastCall.log[1].result = ERROR
    /\ lastCall.log[2].result = CONTINUE
    /\ lastCall.result = ERROR

--------------------------------------------------------------------------
(* The dispatch loop over hooks of every kind, with and without registered
   executors, and over matchers that match, do not match or do not compile *)

\* the hook dictionaries handed to load_hooks: a command hook whose matcher
\* re.compile rejects, a prompt hook with a matcher of two alternatives, a hook
\* of a kind the engine does not know with a matcher in another letter case
\* than the tool name, and an agent hook without an agent
DispatchPool ==
    {[matcher |-> s_badre, command |-> s_c1],
     [type |-> s_prompt, matcher |-> s_WriteOrEdit, prompt |-> s_c1],
     [type |-> s_webhook, matcher |-> s_bash, command |-> s_c1],
     [type |-> s_agent]}

DispatchToolNames == {s_WriteFile, s_Bash, s_RunBash}

\* load_hooks with hook dictionaries of DispatchPool for PreToolUse
LoadDispatchHooks ==
    /\ Total(hooks) < MaxHooks
    /\ \E hook_list \in HookLists(DispatchPool, MaxHooks - Total(hooks)) :
        /\ hooks' = load_hooks(hooks, (s_PreToolUse :> hook_list))
        /\ dispatched' = [t \in DOMAIN hooks' |->
                            [i \in 1..Len(hooks'[t]) |->
                                IF t \in DOMAIN hooks /\ i <= Len(hooks[t])
                                THEN dispatched[t][i] ELSE 0]]
    /\ UNCHANGED <<executed_once_hooks, prompt_executor, agent_executor, calls, lastCall>>
    /\ UNCHANGED <<cmdRun, prep, callVars, bridgeVars>>

\* HookEngine.execute(HookType.PRE_TOOL_USE, context)
ExecuteDispatch == ExecuteOn({s_PreToolUse}, DispatchToolNames)

NextDispatch ==
    \/ LoadDispatchHooks
    \/ RegisterPromptExecutor
    \/ ExecuteDispatch

SpecDispatch == Init /\ [][NextDispatch]_vars

\* whether the tool name starts with the word, letter case aside
StartsWith(tool_name, word) ==
    /\ Len(word) <= Len(tool_name)
    /\ \A i \in 1..Len(word) : UpperChar(tool_name[i]) = UpperChar(word[i])

\* whether the matcher, as a regular expression, matches a prefix of the tool
\* name, for the matchers of the hooks above
MatchesPrefix(matcher, tool_name) ==
    IF matcher = s_any THEN TRUE
    ELSE IF matcher = s_bash THEN StartsWith(tool_name, s_bash)
    ELSE IF matcher = s_WriteOrEdit
    THEN StartsWith(tool_name, <<"W","r","i","t","e">>) \/ StartsWith(tool_name, <<"E","d","i","t">>)
    ELSE FALSE

\* what execute returns, by the results of the hooks it ran
ResultOf(log) ==
    IF \E k \in 1..Len(log) : log[k].result = BLOCK THEN BLOCK
    ELSE IF \E k \in 1..Len(log) : log[k].result = ERROR THEN ERROR
    ELSE CONTINUE

\* C18: a hook is executed in a call only if its matcher, as a regular
\* expression without regard to letter case, matches a prefix of the tool name;
\* a hook whose matcher does not match or does not compile is not executed and
\* has no part in the result of the call, which is made of the results of the
\* executed hooks alone; a hook without the once flag whose matcher matches a
\* prefix is executed when nothing before it in the list was.
C18_OnlyPrefixMatchesRun ==
    /\ \A i \in Ran : MatchesPrefix(lastCall.hs[i].matcher, lastCall.tool_name)
    /\ lastCall.result = ResultOf(lastCall.log)
    /\ \A i \in 1..Len(lastCall.hs) :
        (/\ MatchesPrefix(lastCall.hs[i].matcher, lastCall.tool_name)
         /\ ~lastCall.hs[i].once
         /\ \A j \in 1..(i - 1) : j \notin Ran) => i \in Ran

\* C18 witness: a call for the tool WriteFile over a hook with the matcher
\* "Write|Edit" behind a hook whose matcher does not compile: the second hook
\* alone is executed, and its result is the result of the call.
C18_Witness ==
    /\ lastCall.tool_name = s_WriteFile
    /\ Len(lastCall.hs) = 2
    /\ lastCall.hs[1].matcher = s_badre
    /\ lastCall.hs[2].matcher = s_WriteOrEdit
    /\ Ran = {2}
    /\ lastCall.result = lastCall.log[1].result

\* whether hook i of the last call could not be run, given what the
\* environment held for it: its kind is unknown, the payload of its kind is
\* missing, the executor of its kind is not registered, or the executor raised
CannotRun(hook, env) ==
    \/ hook.type \notin {s_command, s_prompt, s_agent}
    \/ hook.type = s_command /\ ~Truthy(hook.command)
    \/ hook.type = s_prompt /\ (~Truthy(hook.prompt) \/ lastCall.prompt_executor = None)
    \/ hook.type = s_agent /\ (~Truthy(hook.agent) \/ lastCall.agent_executor = None)
    \/ hook.type \in {s_prompt, s_agent} /\ env.reply.kind = "raises"

\* C20: a hook that cannot be run (unknown kind, missing payload, no executor
\* registered for a prompt or agent hook, an executor that raises) resolves to
\* ERROR, never to BLOCK; execute returns all the same, and goes on to the hooks
\* registered after it: every later hook whose matcher matches is executed
\* unless a hook that could be run has ended the call with BLOCK.
C20_UnrunnableHookIsError ==
    /\ lastCall.result \in HookResult
    /\ \A k \in 1..Len(lastCall.log) :
        CannotRun(lastCall.hs[lastCall.log[k].idx], lastCall.log[k].env) =>
            /\ lastCall.log[k].result = ERROR
            /\ lastCall.result # CONTINUE
            /\ lastCall.result = BLOCK =>
                    \E n \in 1..Len(lastCall.log) :
                        /\ lastCall.log[n].result = BLOCK
                        /\ ~CannotRun(lastCall.hs[lastCall.log[n].idx], lastCall.log[n].env)
            /\ lastCall.result # BLOCK =>
                    \A i \in (lastCall.log[k].idx + 1)..Len(lastCall.hs) :
                        (/\ MatchesPrefix(lastCall.hs[i].matcher, lastCall.tool_name)
                         /\ ~lastCall.hs[i].once) => i \in Ran

\* C20 witness: a call in which the registered prompt executor raised for the
\* first hook, the hook resolved to ERROR, the agent hook after it, which has no
\* agent, was executed too, and the call returned ERROR.
C20_Witness ==
    /\ lastCall.tool_name = s_WriteFile
    /\ lastCall.prompt_executor = Callable
    /\ Len(lastCall.hs) = 2
    /\ lastCall.hs[1].type = s_prompt
    /\ lastCall.hs[2].type = s_agent
    /\ Len(lastCall.log) = 2
    /\ lastCall.log[1].env.reply.kind = "raises"
    /\ lastCall.log[1].result = ERROR
    /\ lastCall.log[2].result = ERROR
    /\ lastCall.result = ERROR

--------------------------------------------------------------------------
(* Once hooks of every kind and outcome: command hooks that succeed, veto or
   time out, a prompt hook without executor, a hook of unknown kind, next to
   a hook without the once flag *)

\* the hook dictionaries handed to load_hooks: two once command hooks that
\* match every tool name, a once hook of unknown kind, a once prompt hook for
\* bash and a hook without the once flag for Write or Edit
OncePool ==
    {[matcher |-> s_anyOrXColon, command |-> s_c1, once |-> TRUE],
     [matcher |-> s_anyOrX, command |-> s_colon \o s_c1, once |-> TRUE],
     [type |-> s_webhook, command |-> s_c2, once |-> TRUE],
     [type |-> s_prompt, matcher |-> s_bash, prompt |-> s_c1, once |-> TRUE],
     [matcher |-> s_WriteOrEdit, command |-> s_c2]}

OnceToolNames == {s_Bash, s_WriteFile}

\* the subprocess outcomes drawn for a command hook: success, veto, timeout
OnceProcOutcomes ==
    {p \in ProcOutcomes : p.kind = "timeout" \/ (p.kind = "exit" /\ p.returncode \in {0, 2})}

RECURSIVE OnceEnvSeqs(_, _)
\* the environment's answers to each hook of a list that matches tool_name
OnceEnvSeqs(hs, tool_name) ==
    IF hs = <<>> THEN {<<>>}
    ELSE {Append(e, x) : e \in OnceEnvSeqs(SubSeq(hs, 1, Len(hs) - 1), tool_name),
                         x \in IF /\ Matches(hs[Len(hs)].matcher, tool_name)
                                  /\ hs[Len(hs)].type = s_command
                                  /\ Truthy(hs[Len(hs)].command)
                               THEN {[proc |-> p, reply |-> NoEnv.reply] : p \in OnceProcOutcomes}
                               ELSE {NoEnv}}

\* load_hooks with hook dictionaries of OncePool for PreToolUse
LoadOnceHooks ==
    /\ Total(hooks) < MaxHooks
    /\ \E hook_list \in HookLists(OncePool, MaxHooks - Total(hooks)) :
        /\ hooks' = load_hooks(hooks, (s_PreToolUse :> hook_list))
        /\ dispatched' = [t \in DOMAIN hooks' |->
                            [i \in 1..Len(hooks'[t]) |->
                                IF t \in DOMAIN hooks /\ i <= Len(hooks[t])
                                THEN dispatched[t][i] ELSE 0]]
    /\ UNCHANGED <<executed_once_hooks, prompt_executor, agent_executor, calls, lastCall>>
    /\ UNCHANGED <<cmdRun, prep, callVars, bridgeVars>>

\* HookEngine.execute(HookType.PRETOOLUSE, context)
ExecuteOnce ==
    /\ calls < MaxCalls
    /\ \E tool_name \in OnceToolNames :
        \E env \in OnceEnvSeqs(HooksOf(hooks, s_PreToolUse), tool_name) :
            ExecuteWith(s_PreToolUse, tool_name, env)

NextOnce ==
    \/ LoadOnceHooks
    \/ ExecuteOnce

SpecOnce == Init /\ [][NextOnce]_vars

\* the hooks of the last call whose matcher matches its tool name
Matching == {i \in 1..Len(lastCall.hs) : Matches(lastCall.hs[i].matcher, lastCall.tool_name)}

\* C23: a once hook is recorded as fired once it has been dispatched, whatever
\* the dispatch resolved to (CONTINUE, BLOCK or ERROR, the ERROR of a timeout, of
\* a missing executor and of an unknown kind included); a once hook recorded
\* before a call is not executed in it, and a call all of whose matching hooks
\* are once hooks recorded before returns CONTINUE.
C23_OnceMarkedWhateverResult ==
    /\ \A t \in DOMAIN hooks : \A i \in 1..Len(hooks[t]) :
            (hooks[t][i].once /\ dispatched[t][i] >= 1)
                => HookId(t, hooks[t][i]) \in executed_once_hooks
    /\ \A k \in 1..Len(lastCall.log) :
            lastCall.hs[lastCall.log[k].idx].once
                => HookId(lastCall.type, lastCall.hs[lastCall.log[k].idx]) \in executed_once_hooks
    /\ \A i \in 1..Len(lastCall.hs) :
            (lastCall.hs[i].once /\ HookId(lastCall.type, lastCall.hs[i]) \in lastCall.firedBefore)
                => i \notin Ran
    /\ (\A i \in Matching :
            lastCall.hs[i].once /\ HookId(lastCall.type, lastCall.hs[i]) \in lastCall.firedBefore)
                => lastCall.result = CONTINUE

\* C23 witness: the only hook registered is a once hook of unknown kind, which
\* can only resolve to ERROR; it was executed once, in the first call, and the
\* second call skipped it and returned CONTINUE.
C23_Witness ==
    /\ calls = 2
    /\ s_PreToolUse \in DOMAIN hooks
    /\ Len(hooks[s_PreToolUse]) = 1
    /\ hooks[s_PreToolUse][1].once
    /\ hooks[s_PreToolUse][1].type = s_webhook
    /\ dispatched[s_PreToolUse][1] = 1
    /\ lastCall.hs = hooks[s_PreToolUse]
    /\ HookId(s_PreToolUse, hooks[s_PreToolUse][1]) \in lastCall.firedBefore
    /\ lastCall.log = <<>>
    /\ lastCall.result = CONTINUE


\* whether the list `longer` is the list `shorter` with hook configurations
\* appended behind it
Extends(longer, shorter) ==
    /\ Len(longer) >= Len(shorter)
    /\ SubSeq(longer, 1, Len(shorter)) = shorter

\* C24: within one execute call the hooks are executed in the order of their
\* event type's list, none that is due before an executed one being left out;
\* load_hooks appends the entries of its call, in their order, behind the hooks
\* registered by earlier calls and never reorders, replaces or removes one.
C24_RegistrationOrder ==
    /\ [](/\ \A k \in 1..(Len(lastCall.log) - 1) :
                lastCall.log[k].idx < lastCall.log[k + 1].idx
          /\ \A i \in Due : (\E j \in Ran : i < j) => i \in Ran)
    /\ [][/\ \A t \in DOMAIN hooks : t \in DOMAIN hooks' /\ Extends(hooks'[t], hooks[t])
          /\ hooks' # hooks =>
                \E hook_list \in HookLists(OncePool, MaxHooks) :
                    hooks'[s_PreToolUse] =
                        HooksOf(hooks, s_PreToolUse)
                            \o [i \in 1..Len(hook_list) |-> HookConfig(hook_list[i])]]_vars

\* C24 witness: two different hooks are registered for the event type, and the
\* last call executed both, the one registered first before the other.
C24_Witness ==
    /\ s_PreToolUse \in DOMAIN hooks
    /\ Len(hooks[s_PreToolUse]) = 2
    /\ hooks[s_PreToolUse][1] # hooks[s_PreToolUse][2]
    /\ lastCall.hs = hooks[s_PreToolUse]
    /\ Len(lastCall.log) = 2
    /\ lastCall.log[1].idx = 1
    /\ lastCall.log[2].idx = 2


\* the triple (event type, matcher, payload) of a hook
Triple(type_str, hook) == <<type_str, hook.matcher, Payload(hook)>>

\* the hooks of the last call's event type that have been executed and have
\* the once flag
FiredHooks ==
    {j \in 1..Len(lastCall.hs) :
        lastCall.hs[j].once /\ dispatched[lastCall.type][j] >= 1}

\* whether the last call reached hook i: no hook before it resolved to BLOCK
Reached(i) ==
    \A k \in 1..Len(lastCall.log) :
        lastCall.log[k].result = BLOCK => i <= lastCall.log[k].idx

\* C25: the fired state of once hooks is kept per triple (event type, matcher,
\* payload): a once hook that a call reaches and whose matcher matches is passed
\* over only when a once hook of the same triple has been executed, and it is
\* executed only when no other once hook of its triple was executed before it.
C25_FiredSlotIsTheTriple ==
    \A i \in Matching :
        (lastCall.hs[i].once /\ Reached(i)) =>
            /\ i \notin Ran =>
                \E j \in FiredHooks :
                    Triple(lastCall.type, lastCall.hs[j]) = Triple(lastCall.type, lastCall.hs[i])
            /\ i \in Ran =>
                \A j \in FiredHooks \ {i} :
                    Triple(lastCall.type, lastCall.hs[j]) = Triple(lastCall.type, lastCall.hs[i])
                        => (j > i \/ dispatched[lastCall.type][j] = 0)


\* C29: executed_once_hooks never shrinks, and every identity it holds is that
\* of a registered hook with the once flag that has been executed; a hook
\* without the once flag, a once hook whose matcher did not match and a once
\* hook that no call reached because an earlier hook resolved to BLOCK add
\* nothing to it.
C29_OnceSetGrowsByFiredOnceHooks ==
    /\ [](\A id \in executed_once_hooks :
            \E t \in DOMAIN hooks : \E i \in 1..Len(hooks[t]) :
                /\ hooks[t][i].once
                /\ dispatched[t][i] >= 1
                /\ HookId(t, hooks[t][i]) = id)
    /\ [][executed_once_hooks \subseteq executed_once_hooks']_vars

\* C29 witness: the second call, for WriteFile like the first: a hook without
\* the once flag ran and resolved to BLOCK before a once hook that was due, as
\* it did in the first call, and the set is empty.
C29_Witness ==
    /\ calls = 2
    /\ lastCall.result = BLOCK
    /\ Len(lastCall.log) = 1
    /\ ~lastCall.hs[lastCall.log[1].idx].once
    /\ dispatched[lastCall.type][lastCall.log[1].idx] = 2
    /\ \E i \in Due : i \notin Ran /\ lastCall.hs[i].once
    /\ executed_once_hooks = {}

--------------------------------------------------------------------------
(* _execute_hook by itself: one hook of any kind, with or without its
   payload, with or without registered executors, and what the executor or
   the subprocess does *)

\* the hooks handed to _execute_hook
KindHooks ==
    {HookConfig(d) :
        d \in [type : {s_command, s_prompt, s_agent, s_webhook}, command : {None, s_c1},
               prompt : {None, <<>>, s_c1}, agent : {None, s_c1}]}

s_unblock == <<"u","n","b","l","o","c","k">>
s_bloc_k == <<"b","l","o","c"," ","k">>

\* a call of the registered executor: it returns a text or None, or raises
KindReplies ==
    {[kind |-> "returns", value |-> v] :
        v \in {s_ok, s_Blocked, s_BLOCK, s_unblock, s_bloc_k, <<>>, None}}
        \cup {[kind |-> "raises", value |-> None]}

\* the environment's answers to the hook, were it run
KindEnvFor(hook, pexec, aexec) ==
    IF hook.type = s_command /\ Truthy(hook.command)
    THEN {[proc |-> p, reply |-> NoEnv.reply] : p \in ProcOutcomes}
    ELSE IF \/ hook.type = s_prompt /\ Truthy(hook.prompt) /\ pexec # None
            \/ hook.type = s_agent /\ Truthy(hook.agent) /\ aexec # None
    THEN {[proc |-> NoEnv.proc, reply |-> r] : r \in KindReplies}
    ELSE {NoEnv}

InitHookRun ==
    /\ InitHooks
    /\ IdleCommandHook
    /\ IdlePrompt
    /\ IdleBridge
    /\ parsed = [phase |-> "idle"]
    /\ tools = [phase |-> "idle"]
    /\ frames = <<>>
    /\ \E hook \in KindHooks, pexec \in {None, Callable}, aexec \in {None, Callable} :
        \E env \in KindEnvFor(hook, pexec, aexec) :
            hookRun = [phase |-> "called", hook |-> hook, prompt_executor |-> pexec,
                       agent_executor |-> aexec, env |-> env]

\* HookEngine._execute_hook(hook, context)
ExecuteHook ==
    /\ hookRun.phase = "called"
    /\ hookRun' = [phase |-> "returned", hook |-> hookRun.hook,
                   prompt_executor |-> hookRun.prompt_executor,
                   agent_executor |-> hookRun.agent_executor, env |-> hookRun.env,
                   result |-> _execute_hook(hookRun.hook, hookRun.prompt_executor,
                                            hookRun.agent_executor, hookRun.env)]
    /\ UNCHANGED <<hookVars, cmdRun, prep, parsed, tools, frames, bridgeVars>>

NextHookRun == ExecuteHook

SpecHookRun == InitHookRun /\ [][NextHookRun]_vars

\* the hook is a prompt or agent hook with its payload, and the executor of its
\* kind is registered: the executor is called
ExecutorCalled ==
    \/ /\ hookRun.hook.type = s_prompt
       /\ Truthy(hookRun.hook.prompt)
       /\ hookRun.prompt_executor # None
    \/ /\ hookRun.hook.type = s_agent
       /\ Truthy(hookRun.hook.agent)
       /\ hookRun.agent_executor # None

\* whether the text holds the word block, in whatever letter case
SaysBlock(text) ==
    /\ text # None
    /\ \E i \in 1..Len(text) :
        /\ i + 4 <= Len(text)
        /\ \A k \in 1..5 : UpperChar(text[i + k - 1]) = s_BLOCK[k]

\* C19: a prompt or agent hook whose registered executor returns resolves to
\* BLOCK exactly when the returned text, in upper case, holds "BLOCK", and to
\* CONTINUE in every other case.
C19_BlockIffReplySaysBlock ==
    (/\ hookRun.phase = "returned"
     /\ ExecutorCalled
     /\ hookRun.env.reply.kind = "returns") =>
        hookRun.result = IF SaysBlock(hookRun.env.reply.value) THEN BLOCK ELSE CONTINUE

\* C19 witness: an agent hook whose executor returned "unblock" has resolved to
\* BLOCK.
C19_Witness ==
    /\ hookRun.phase = "returned"
    /\ hookRun.hook.type = s_agent
    /\ ExecutorCalled
    /\ hookRun.env.reply = [kind |-> "returns", value |-> s_unblock]
    /\ hookRun.result = BLOCK

--------------------------------------------------------------------------
(* _execute_command_hook by itself: one command hook, one subprocess outcome *)

\* the command hooks handed to _execute_command_hook
CommandHooks ==
    {HookConfig(d) :
        d \in [type : {s_command}, matcher : {s_any, s_bash},
               command : {s_c1, s_c2, <<>>, None}, timeout : {DefaultTimeout, 5},
               once : BOOLEAN]}

InitCommandHook ==
    /\ InitHooks
    /\ IdlePrompt
    /\ IdleBridge
    /\ IdleCalls
    /\ cmdRun \in [phase : {"called"}, hook : CommandHooks, proc : ProcOutcomes]

\* HookEngine._execute_command_hook(hook, context)
ExecuteCommandHook ==
    /\ cmdRun.phase = "called"
    /\ LET env == [proc |-> cmdRun.proc, reply |-> NoEnv.reply] IN
        cmdRun' = [phase |-> "returned", hook |-> cmdRun.hook, proc |-> cmdRun.proc,
                   result |-> _execute_command_hook(cmdRun.hook, env),
                   spawned |-> SubprocessRuns(cmdRun.hook, env)]
    /\ UNCHANGED <<hookVars, prep, callVars, bridgeVars>>

NextCommandHook == ExecuteCommandHook

SpecCommandHook == InitCommandHook /\ [][NextCommandHook]_vars

\* C8: a command hook with a command resolves by what its subprocess did: exit
\* code 0 gives CONTINUE, 2 gives BLOCK, every other exit code ERROR; a timeout
\* or a failure to start gives ERROR; _execute_command_hook always returns one of
\* the three results and starts the subprocess once, never a second time.
C8_CommandHookExitCodes ==
    (cmdRun.phase = "returned" /\ Truthy(cmdRun.hook.command)) =>
        /\ cmdRun.result \in HookResult
        /\ (cmdRun.proc.kind = "exit" /\ cmdRun.proc.returncode = 0) => cmdRun.result = CONTINUE
        /\ (cmdRun.proc.kind = "exit" /\ cmdRun.proc.returncode = 2) => cmdRun.result = BLOCK
        /\ (cmdRun.proc.kind = "exit" /\ cmdRun.proc.returncode \notin {0, 2})
                => cmdRun.result = ERROR
        /\ cmdRun.proc.kind \in {"timeout", "oserror"} => cmdRun.result = ERROR
        /\ cmdRun.spawned = 1

\* C8 witness: a command hook whose subprocess exceeded the timeout has returned
C8_Witness ==
    /\ cmdRun.phase = "returned"
    /\ Truthy(cmdRun.hook.command)
    /\ cmdRun.proc.kind = "timeout"
    /\ cmdRun.result = ERROR

--------------------------------------------------------------------------
(* src/commands.py: CommandExecutor *)

s_ARGUMENTS == <<"$","A","R","G","U","M","E","N","T","S">>
s_space == <<" ">>
s_nl == <<"\n">>
s_f == <<"f">>
s_g == <<"g">>
s_c == <<"c">>
s_o == <<"o">>
s_w == <<"w">>
s_x == <<"x">>
s_hi == <<"h","i">>
s_dollar == <<"$">>
s_d1 == <<"$","1">>
s_d2 == <<"$","2">>
s_atf == <<"@","f">>
s_atg == <<"@","g">>
\* the backtick, which a TLA+ string cannot hold, is written as a tilde
BT == "~"
s_runc == <<"!", BT, "c", BT>>
s_world == <<"w","o","r","l","d">>
s_Hello == <<"H","e","l","l","o"," ">> \o s_ARGUMENTS
              \o <<",", " ", "a","r","g","1","=","$","1">>
s_HelloOut == <<"H","e","l","l","o"," ","w","o","r","l","d"," ","x",
                ",", " ", "a","r","g","1","=","w","o","r","l","d">>

Digits == <<"1","2","3","4","5","6","7","8","9">>

\* f"${i}"
Positional(i) == <<"$", Digits[i]>>

Whitespace == {" ", "\n", "\t", "\r"}

RECURSIVE Replace(_, _, _)
\* str.replace(old, new): every non-overlapping occurrence, from the left
Replace(str, old, new) ==
    IF Len(str) < Len(old) THEN str
    ELSE IF SubSeq(str, 1, Len(old)) = old
    THEN new \o Replace(SubSeq(str, Len(old) + 1, Len(str)), old, new)
    ELSE <<str[1]>> \o Replace(SubSeq(str, 2, Len(str)), old, new)

RECURSIVE Join(_, _)
\* sep.join(list)
Join(sep, list) ==
    IF list = <<>> THEN <<>>
    ELSE IF Len(list) = 1 THEN list[1]
    ELSE list[1] \o sep \o Join(sep, SubSeq(list, 2, Len(list)))

RECURSIVE Strip(_)
\* str.strip()
Strip(str) ==
    IF str = <<>> THEN str
    ELSE IF str[1] \in Whitespace THEN Strip(SubSeq(str, 2, Len(str)))
    ELSE IF str[Len(str)] \in Whitespace THEN Strip(SubSeq(str, 1, Len(str) - 1))
    ELSE str

RECURSIVE ReplacePositional(_, _, _)
\* for i, arg in enumerate(arguments[:9], start=1): content.replace(f"${i}", arg)
ReplacePositional(content, arguments, i) ==
    IF i > Len(arguments) \/ i > 9 THEN content
    ELSE ReplacePositional(Replace(content, Positional(i), arguments[i]), arguments, i + 1)

RECURSIVE RemovePositional(_, _)
\* for i in range(1, 10): content.replace(f"${i}", "")
RemovePositional(content, i) ==
    IF i > 9 THEN content
    ELSE RemovePositional(Replace(content, Positional(i), <<>>), i + 1)

\* CommandExecutor._substitute_arguments
_substitute_arguments(content, arguments) ==
    RemovePositional(
        ReplacePositional(Replace(content, s_ARGUMENTS, Join(s_space, arguments)),
                          arguments, 1),
        1)

\* the replacement of one @path reference (replace_reference); files is the
\* project directory and the absolute paths: path -> [kind, text]
replace_reference(file_path, files) ==
    LET first == IF file_path \in DOMAIN files.project
                 THEN files.project ELSE files.absolute
        found == file_path \in DOMAIN first /\ first[file_path].kind # "dir"
    IN IF found
       THEN IF first[file_path].kind = "file"
            THEN <<"\n">> \o <<"-","-","-"," ","C","o","n","t","e","n","t"," ","o","f"," ">>
                    \o file_path \o <<" ","-","-","-","\n">> \o first[file_path].text
                    \o <<"\n","-","-","-"," ","E","n","d"," ","o","f"," ">> \o file_path
                    \o <<" ","-","-","-","\n">>
            ELSE <<"[","E","r","r","o","r"," ","r","e","a","d","i","n","g"," ">> \o file_path
                    \o <<":"," ">> \o first[file_path].text \o <<"]">>
       ELSE <<"[","F","i","l","e"," ","n","o","t"," ","f","o","u","n","d",":"," ">>
                \o file_path \o <<"]">>

\* whether looking one @path reference up raises: full_path.exists() and
\* Path(file_path).expanduser() stand before the try of replace_reference
lookup_raises(file_path, files) ==
    IF file_path \in DOMAIN files.project
    THEN files.project[file_path].kind = "raises"
    ELSE file_path \in DOMAIN files.absolute /\ files.absolute[file_path].kind = "raises"

\* the length of the longest run of characters that are neither whitespace nor "@"
RECURSIVE PathLen(_, _)
PathLen(str, i) ==
    IF i > Len(str) \/ str[i] \in Whitespace \/ str[i] = "@" THEN 0
    ELSE 1 + PathLen(str, i + 1)

RECURSIVE _resolve_file_references(_, _)
\* CommandExecutor._resolve_file_references: re.sub over "@" and one or more
\* characters that are neither whitespace nor "@"
_resolve_file_references(content, files) ==
    IF content = <<>> THEN content
    ELSE IF content[1] = "@" /\ PathLen(content, 2) > 0
    THEN LET n == PathLen(content, 2) IN
         replace_reference(SubSeq(content, 2, n + 1), files)
            \o _resolve_file_references(SubSeq(content, n + 2, Len(content)), files)
    ELSE <<content[1]>> \o _resolve_file_references(SubSeq(content, 2, Len(content)), files)

RECURSIVE reference_raises(_, _)
\* whether re.sub in _resolve_file_references is left by an exception of one
\* of its replace_reference calls
reference_raises(content, files) ==
    IF content = <<>> THEN FALSE
    ELSE IF content[1] = "@" /\ PathLen(content, 2) > 0
    THEN LET n == PathLen(content, 2) IN
         \/ lookup_raises(SubSeq(content, 2, n + 1), files)
         \/ reference_raises(SubSeq(content, n + 2, Len(content)), files)
    ELSE reference_raises(SubSeq(content, 2, Len(content)), files)

\* execute_and_replace with the standard error appended after every exit
execute_and_replace_StderrAlways(command, shell) ==
    LET run == IF command \in DOMAIN shell THEN shell[command]
               ELSE [kind |-> "exit", returncode |-> 127, stdout |-> <<>>,
                     stderr |-> <<"n","o","t"," ","f","o","u","n","d">>]
    IN IF run.kind = "exit"
       THEN LET output == Strip(run.stdout) \o
                    (IF run.stderr # <<>>
                     THEN <<"\n","[","s","t","d","e","r","r",":"," ">> \o Strip(run.stderr) \o <<"]">>
                     ELSE <<>>)
            IN IF output # <<>> THEN output
               ELSE <<"[","n","o"," ","o","u","t","p","u","t","]">>
       ELSE IF run.kind = "timeout"
       THEN <<"[","C","o","m","m","a","n","d"," ","t","i","m","e","d"," ","o","u","t",":"," ">>
                \o command \o <<"]">>
       ELSE <<"[","E","r","r","o","r"," ","e","x","e","c","u","t","i","n","g"," ","'">>
                \o command \o <<"'",":"," ">> \o run.stderr \o <<"]">>

\* the replacement of one inline command token (execute_and_replace); shell maps a
\* command to what subprocess.run does with it
execute_and_replace(command, shell) ==
    LET run == IF command \in DOMAIN shell THEN shell[command]
               ELSE [kind |-> "exit", returncode |-> 127, stdout |-> <<>>,
                     stderr |-> <<"n","o","t"," ","f","o","u","n","d">>]
    IN IF run.kind = "exit"
       THEN LET output == Strip(run.stdout) \o
                    (IF run.returncode # 0 /\ run.stderr # <<>>
                     THEN <<"\n","[","s","t","d","e","r","r",":"," ">> \o Strip(run.stderr) \o <<"]">>
                     ELSE <<>>)
            IN IF output # <<>> THEN output
               ELSE <<"[","n","o"," ","o","u","t","p","u","t","]">>
       ELSE IF run.kind = "timeout"
       THEN <<"[","C","o","m","m","a","n","d"," ","t","i","m","e","d"," ","o","u","t",":"," ">>
                \o command \o <<"]">>
       ELSE <<"[","E","r","r","o","r"," ","e","x","e","c","u","t","i","n","g"," ","'">>
                \o command \o <<"'",":"," ">> \o run.stderr \o <<"]">>

\* the length of the longest run of characters other than a backtick
RECURSIVE CommandLen(_, _)
CommandLen(str, i) ==
    IF i > Len(str) \/ str[i] = BT THEN 0
    ELSE 1 + CommandLen(str, i + 1)

\* whether the run of the command ends in an exception
inline_run_fails(command, shell) == command \in DOMAIN shell /\ shell[command].kind # "exit"

RECURSIVE _execute_inline_bash_StopsAtFailure(_, _)
\* _execute_inline_bash that leaves the text after a failed command as it is
_execute_inline_bash_StopsAtFailure(content, shell) ==
    IF content = <<>> THEN content
    ELSE IF /\ Len(content) >= 4
            /\ content[1] = "!"
            /\ content[2] = BT
            /\ CommandLen(content, 3) > 0
            /\ CommandLen(content, 3) + 3 <= Len(content)
    THEN LET n == CommandLen(content, 3) IN
         IF inline_run_fails(SubSeq(content, 3, n + 2), shell)
         THEN execute_and_replace(SubSeq(content, 3, n + 2), shell)
                \o SubSeq(content, n + 4, Len(content))
         ELSE execute_and_replace(SubSeq(content, 3, n + 2), shell)
                \o _execute_inline_bash_StopsAtFailure(SubSeq(content, n + 4, Len(content)), shell)
    ELSE <<content[1]>> \o _execute_inline_bash_StopsAtFailure(SubSeq(content, 2, Len(content)), shell)

RECURSIVE _execute_inline_bash(_, _)
\* CommandExecutor._execute_inline_bash: re.sub over "!", a backtick, one or
\* more characters other than a backtick, and a backtick
_execute_inline_bash(content, shell) ==
    IF content = <<>> THEN content
    ELSE IF /\ Len(content) >= 4
            /\ content[1] = "!"
            /\ content[2] = BT
            /\ CommandLen(content, 3) > 0
            /\ CommandLen(content, 3) + 3 <= Len(content)
    THEN LET n == CommandLen(content, 3) IN
         execute_and_replace(SubSeq(content, 3, n + 2), shell)
            \o _execute_inline_bash(SubSeq(content, n + 4, Len(content)), shell)
    ELSE <<content[1]>> \o _execute_inline_bash(SubSeq(content, 2, Len(content)), shell)

\* prepare_prompt with the argument substitution moved behind the other two steps
prepare_prompt_SubstituteLast(content, arguments, files, shell) ==
    LET step2 == _resolve_file_references(content, files)
        step3 == _execute_inline_bash(step2, shell)
        step1 == _substitute_arguments(step3, arguments)
    IN IF reference_raises(content, files)
       THEN [substituted |-> content, resolved |-> None, prompt |-> None, raised |-> TRUE]
       ELSE [substituted |-> content, resolved |-> step2, prompt |-> step1, raised |-> FALSE]

\* CommandExecutor.prepare_prompt: the text after each of the three steps, or
\* the exception of the file lookup that ends the call
prepare_prompt(content, arguments, files, shell) ==
    LET step1 == _substitute_arguments(content, arguments)
        step2 == _resolve_file_references(step1, files)
        step3 == _execute_inline_bash(step2, shell)
    IN IF reference_raises(step1, files)
       THEN [substituted |-> step1, resolved |-> None, prompt |-> None, raised |-> TRUE]
       ELSE [substituted |-> step1, resolved |-> step2, prompt |-> step3, raised |-> FALSE]

--------------------------------------------------------------------------
(* prepare_prompt as a state machine: one call on drawn inputs *)

\* most pieces a command body is put together from, where argument
\* substitution is looked at by itself
MaxBodyPieces == 3
\* most arguments of such a call
MaxArgs == 2
\* most pieces of a command body where the three steps are looked at together
MaxPromptPieces == 2

RECURSIVE Texts(_, _)
\* the texts put together from at most n of the pieces
Texts(pieces, n) ==
    IF n = 0 THEN {<<>>}
    ELSE Texts(pieces, n - 1) \cup {t \o q : t \in Texts(pieces, n - 1), q \in pieces}

\* the lists of at most n of the values
Lists(values, n) == UNION {[1..k -> values] : k \in 0..n}

\* an empty project directory, and a shell that is never asked
NoFiles == [project |-> <<>>, absolute |-> <<>>]
NoShell == <<>>

\* bodies and arguments for the argument substitution
SubstPieces == {s_dollar, s_d1, s_d2, <<"1">>, <<"2">>, s_x, s_ARGUMENTS}
SubstArgValues == {s_w, s_x, s_d2, <<"1">>}

InitSubstitute ==
    /\ InitHooks
    /\ IdleCommandHook
    /\ IdleBridge
    /\ IdleCalls
    /\ \/ prep \in [phase : {"called"}, content : Texts(SubstPieces, MaxBodyPieces),
                    arguments : Lists(SubstArgValues, MaxArgs),
                    files : {NoFiles}, shell : {NoShell}]
       \/ prep = [phase |-> "called", content |-> s_Hello, arguments |-> <<s_world, s_x>>,
                  files |-> NoFiles, shell |-> NoShell]

\* CommandExecutor.prepare_prompt(command, arguments)
PreparePrompt ==
    /\ prep.phase = "called"
    /\ LET out == prepare_prompt(prep.content, prep.arguments, prep.files, prep.shell) IN
        prep' = [phase |-> "returned", content |-> prep.content,
                 arguments |-> prep.arguments, files |-> prep.files, shell |-> prep.shell,
                 substituted |-> out.substituted, resolved |-> out.resolved,
                 prompt |-> out.prompt, raised |-> out.raised]
    /\ UNCHANGED <<hookVars, cmdRun, callVars, bridgeVars>>

NextPrompt == PreparePrompt

SpecSubstitute == InitSubstitute /\ [][NextPrompt]_vars

\* whether a text holds one of the tokens $1 .. $9
HasPositional(text) == \E i \in 1..9 : Contains(text, Positional(i))

\* C5: with an empty argument list no token $1 .. $9 is left, neither in the
\* text handed to the later steps nor in the prompt prepare_prompt returns.
C5_NoPositionalSurvives ==
    (prep.phase = "returned" /\ prep.arguments = <<>>) =>
        ~HasPositional(prep.substituted) /\ ~HasPositional(prep.prompt)

RECURSIVE OnePassSubstitution(_, _)
\* the substitution as one pass over the body: $ARGUMENTS becomes the joined
\* arguments, $i the i-th argument (nothing when there is none), and the text an
\* argument supplies is not looked at again
OnePassSubstitution(content, arguments) ==
    IF content = <<>> THEN content
    ELSE IF Len(content) >= Len(s_ARGUMENTS) /\ SubSeq(content, 1, Len(s_ARGUMENTS)) = s_ARGUMENTS
    THEN Join(s_space, arguments)
            \o OnePassSubstitution(SubSeq(content, Len(s_ARGUMENTS) + 1, Len(content)), arguments)
    ELSE IF Len(content) >= 2 /\ \E i \in 1..9 : SubSeq(content, 1, 2) = Positional(i)
    THEN LET i == CHOOSE i \in 1..9 : SubSeq(content, 1, 2) = Positional(i) IN
         (IF i <= Len(arguments) THEN arguments[i] ELSE <<>>)
            \o OnePassSubstitution(SubSeq(content, 3, Len(content)), arguments)
    ELSE <<content[1]>> \o OnePassSubstitution(SubSeq(content, 2, Len(content)), arguments)

\* C9: _substitute_arguments gives the body with every $ARGUMENTS replaced by
\* the arguments joined with single spaces and every $i of the body replaced by
\* the i-th argument, the text an argument supplies being left as supplied.
C9_ArgumentsLeftAsSupplied ==
    prep.phase = "returned" =>
        prep.substituted = OnePassSubstitution(prep.content, prep.arguments)

--------------------------------------------------------------------------
(* prepare_prompt on bodies, arguments, files and commands that feed one
   step's output into the next *)

PromptPieces == {s_d1, s_atf, s_runc, s_x, s_space}
PromptArgs == {<<>>, <<s_w>>, <<s_atf>>, <<s_runc>>}

\* what is found under the project directory and under the path itself: g is
\* always a file of the project, f is a file, a directory, unreadable or missing
FileTexts == {s_hi, s_d1, s_runc, s_atg}
FileOf(text) == [kind |-> "file", text |-> text]
PromptFiles ==
    {[project |-> (s_f :> FileOf(t)) @@ (s_g :> FileOf(s_hi)), absolute |-> <<>>] :
        t \in FileTexts}
    \cup {[project |-> (s_f :> [kind |-> "dir", text |-> <<>>]) @@ (s_g :> FileOf(s_hi)),
           absolute |-> <<>>],
          [project |-> (s_f :> [kind |-> "unreadable", text |-> s_x]) @@ (s_g :> FileOf(s_hi)),
           absolute |-> <<>>],
          [project |-> (s_g :> FileOf(s_hi)), absolute |-> <<>>],
          [project |-> (s_g :> FileOf(s_hi)), absolute |-> (s_f :> FileOf(s_hi))]}

\* what subprocess.run does with the command c
Exit(returncode, stdout, stderr) ==
    [kind |-> "exit", returncode |-> returncode, stdout |-> stdout, stderr |-> stderr]
PromptShells ==
    {(s_c :> run) :
        run \in {Exit(0, s_o \o s_nl, <<>>), Exit(0, <<>>, <<>>), Exit(1, <<>>, s_x),
                 Exit(0, s_o, s_x), Exit(0, s_atf, <<>>), Exit(0, s_runc, <<>>),
                 [kind |-> "timeout", stderr |-> <<>>],
                 [kind |-> "error", stderr |-> s_x]}}

InitPrompt ==
    /\ InitHooks
    /\ IdleCommandHook
    /\ IdleBridge
    /\ IdleCalls
    /\ prep \in [phase : {"called"}, content : Texts(PromptPieces, MaxPromptPieces),
                 arguments : PromptArgs, files : PromptFiles, shell : PromptShells]

SpecPrompt == InitPrompt /\ [][NextPrompt]_vars

\* f is a readable file of the project holding the text
FileHolds(text) ==
    s_f \in DOMAIN prep.files.project /\ prep.files.project[s_f] = FileOf(text)

\* what the command c leaves in the prompt
OutputOfC == execute_and_replace(s_c, prep.shell)

\* the block a readable file f with this text leaves in the prompt
BlockOfF(text) ==
    <<"\n","-","-","-"," ","C","o","n","t","e","n","t"," ","o","f"," ","f"," ","-","-","-","\n">>
        \o text \o <<"\n","-","-","-"," ","E","n","d"," ","o","f"," ","f"," ","-","-","-","\n">>

\* C10: prepare_prompt substitutes the arguments, then resolves the file
\* references of what that gave, then runs the inline commands of what that
\* gave, each once.  A reference or a command token that an argument brings in
\* is resolved; a command token in the text of an inlined file is run; a
\* placeholder in the text of an inlined file stays whatever the arguments are;
\* a reference in the text of an inlined file, and a reference or command token
\* in a command's output, stay as they are.
C10_ThreeStagesInOrder ==
    prep.phase = "returned" =>
        /\ (prep.content = s_d1 /\ prep.arguments = <<s_atf>> /\ FileHolds(s_hi)) =>
                prep.resolved = BlockOfF(s_hi) /\ prep.prompt = BlockOfF(s_hi)
        /\ (prep.content = s_d1 /\ prep.arguments = <<s_runc>>) =>
                prep.substituted = s_runc /\ prep.prompt = OutputOfC
        /\ (prep.content = s_d1 /\ prep.arguments = <<s_atf>> /\ FileHolds(s_runc)) =>
                prep.prompt = BlockOfF(OutputOfC)
        /\ (prep.content = s_atf /\ FileHolds(s_runc)) =>
                prep.resolved = BlockOfF(s_runc) /\ prep.prompt = BlockOfF(OutputOfC)
        /\ (prep.content = s_atf /\ FileHolds(s_d1)) => prep.prompt = BlockOfF(s_d1)
        /\ (prep.content = s_atf /\ FileHolds(s_atg)) => prep.prompt = BlockOfF(s_atg)
        /\ (prep.content = s_runc /\ prep.shell[s_c] = Exit(0, s_atf, <<>>)) =>
                prep.prompt = s_atf
        /\ (prep.content = s_runc /\ prep.shell[s_c] = Exit(0, s_runc, <<>>)) =>
                prep.prompt = s_runc
        /\ (~Contains(OutputOfC, <<BT>>)) => ~Contains(prep.prompt, <<BT>>)
        /\ (~Contains(OutputOfC, <<"@">>) /\ ~FileHolds(s_atg)) =>
                ~Contains(prep.prompt, <<"@">>)

\* C10 witness: the argument brings in a reference to a file whose text holds a
\* command token, and the prompt is the file's block around the command's output.
C10_Witness ==
    /\ prep.phase = "returned"
    /\ prep.content = s_d1
    /\ prep.arguments = <<s_atf>>
    /\ FileHolds(s_runc)
    /\ prep.shell[s_c] = Exit(0, s_o \o s_nl, <<>>)
    /\ prep.substituted = s_atf
    /\ prep.resolved = BlockOfF(s_runc)
    /\ prep.prompt = BlockOfF(s_o)

--------------------------------------------------------------------------
(* _resolve_file_references on references that are found, unreadable,
   missing, or whose lookup itself fails *)

\* most pieces of a command body made of file references
MaxReferencePieces == 2

s_missing == <<"m","i","s","s","i","n","g",".","t","x","t">>
\* a path that starts with the home directory of a user n
s_nouser == <<"~","n">>

ReferencePaths == {s_f, s_missing, s_nouser}
ReferencePieces == {<<"@">> \o path : path \in ReferencePaths} \cup {s_x, s_space}

\* f is a file, a directory, unreadable or missing; missing.txt is nowhere;
\* the user n exists, and ~n is that user's home directory, or does not, and
\* expanduser() raises RuntimeError
ReferenceFiles ==
    {[project |-> f, absolute |-> (s_nouser :> home)] :
        f \in {(s_f :> FileOf(s_hi)), (s_f :> [kind |-> "dir", text |-> <<>>]),
               (s_f :> [kind |-> "unreadable", text |-> s_x]), <<>>},
        home \in {[kind |-> "dir", text |-> <<>>], [kind |-> "raises", text |-> <<>>]}}

InitReference ==
    /\ InitHooks
    /\ IdleCommandHook
    /\ IdleBridge
    /\ IdleCalls
    /\ prep \in [phase : {"called"}, content : Texts(ReferencePieces, MaxReferencePieces),
                 arguments : {<<>>}, files : ReferenceFiles, shell : {NoShell}]

SpecReference == InitReference /\ [][NextPrompt]_vars

\* the three texts a reference can be replaced by
ContentBlock(path, text) ==
    <<"\n","-","-","-"," ","C","o","n","t","e","n","t"," ","o","f"," ">> \o path
        \o <<" ","-","-","-","\n">> \o text
        \o <<"\n","-","-","-"," ","E","n","d"," ","o","f"," ">> \o path \o <<" ","-","-","-","\n">>
ErrorReadingNote(path, error) ==
    <<"[","E","r","r","o","r"," ","r","e","a","d","i","n","g"," ">> \o path
        \o <<":"," ">> \o error \o <<"]">>
FileNotFoundNote(path) ==
    <<"[","F","i","l","e"," ","n","o","t"," ","f","o","u","n","d",":"," ">> \o path \o <<"]">>

\* C11: _resolve_file_references always returns: every @path token is replaced
\* by the file's content block, by the note "[Error reading <path>: ...]" or by
\* the note "[File not found: <path>]", and no exception reaches the caller of
\* prepare_prompt; @missing.txt, with no such file, gives
\* "[File not found: missing.txt]".
C11_ReferencesAlwaysResolve ==
    prep.phase = "returned" =>
        /\ ~prep.raised
        /\ \A path \in ReferencePaths :
            prep.content = <<"@">> \o path =>
                prep.resolved \in {ContentBlock(path, s_hi), ErrorReadingNote(path, s_x),
                                   FileNotFoundNote(path)}
        /\ prep.content = <<"@">> \o s_missing => prep.resolved = FileNotFoundNote(s_missing)

--------------------------------------------------------------------------
(* _execute_inline_bash on bodies with two inline commands, each of which
   exits, runs into the timeout or cannot be started *)

\* most pieces of a command body made of inline commands
MaxInlinePieces == 2

s_d == <<"d">>
\* !`command`
Token(command) == <<"!", BT>> \o command \o <<BT>>

InlineCommands == {s_c, s_d}
InlinePieces == {Token(command) : command \in InlineCommands} \cup {s_x, s_space}

\* what subprocess.run does with one command: it exits, with or without
\* output, the 30 seconds pass (TimeoutExpired), or it raises another exception
InlineRuns ==
    {Exit(0, s_o \o s_nl, <<>>), Exit(0, <<>>, <<>>), Exit(1, s_o, s_x),
     Exit(0, s_o, s_x \o s_nl), Exit(0, <<>>, s_x),
     [kind |-> "timeout", stderr |-> <<>>], [kind |-> "error", stderr |-> s_x]}
InlineShells == {(s_c :> c) @@ (s_d :> d) : c \in InlineRuns, d \in InlineRuns}

InitInline ==
    /\ InitHooks
    /\ IdleCommandHook
    /\ IdleBridge
    /\ IdleCalls
    /\ prep \in [phase : {"called"}, content : Texts(InlinePieces, MaxInlinePieces),
                 arguments : {<<>>}, files : {NoFiles}, shell : InlineShells]

SpecInline == InitInline /\ [][NextPrompt]_vars

\* the notes a command that did not finish is replaced by
TimedOutNote(command) ==
    <<"[","C","o","m","m","a","n","d"," ","t","i","m","e","d"," ","o","u","t",":"," ">>
        \o command \o <<"]">>
ErrorExecutingNote(command, error) ==
    <<"[","E","r","r","o","r"," ","e","x","e","c","u","t","i","n","g"," ","'">>
        \o command \o <<"'",":"," ">> \o error \o <<"]">>

\* whether the run of the command failed: timeout or exception
InlineFailed(command) == prep.shell[command].kind # "exit"

\* what stands in the prompt for the token of the command
InlineReplacement(command) ==
    IF prep.shell[command].kind = "timeout" THEN TimedOutNote(command)
    ELSE IF prep.shell[command].kind = "error"
    THEN ErrorExecutingNote(command, prep.shell[command].stderr)
    ELSE execute_and_replace(command, prep.shell)

\* C12: a timeout or any other failure of an inline command is replaced in place
\* by a bracketed note, the tokens after it are still processed, and nothing is
\* raised to the caller of prepare_prompt.
C12_InlineFailureIsInline ==
    prep.phase = "returned" =>
        /\ ~prep.raised
        /\ \A a \in InlineCommands :
            prep.content = Token(a) => prep.prompt = InlineReplacement(a)
        /\ \A a, b \in InlineCommands :
            prep.content = Token(a) \o Token(b) =>
                prep.prompt = InlineReplacement(a) \o InlineReplacement(b)
        /\ \A a \in InlineCommands :
            prep.content = Token(a) \o s_x => prep.prompt = InlineReplacement(a) \o s_x

\* C12 witness: c runs into the timeout, d after it is still run, and the prompt
\* is the note for c followed by the output of d.
C12_Witness ==
    /\ prep.phase = "returned"
    /\ ~prep.raised
    /\ prep.content = Token(s_c) \o Token(s_d)
    /\ prep.shell[s_c].kind = "timeout"
    /\ prep.shell[s_d] = Exit(0, s_o \o s_nl, <<>>)
    /\ prep.prompt = TimedOutNote(s_c) \o s_o

--------------------------------------------------------------------------
(* execute_and_replace on a command that exits: what becomes of its
   standard output and its standard error *)

\* the text with the white space at both ends taken off, for the texts the
\* commands here write
Trimmed(text) ==
    IF text \in {s_o, s_o \o s_nl} THEN s_o
    ELSE IF text \in {s_x, s_x \o s_nl} THEN s_x
    ELSE <<>>

\* [stderr: <trimmed stderr>]
StderrSuffix(stderr) ==
    <<"[","s","t","d","e","r","r",":"," ">> \o Trimmed(stderr) \o <<"]">>

s_no_output == <<"[","n","o"," ","o","u","t","p","u","t","]">>

\* the body is the token of the command alone, and the command has exited
OnlyTokenExited(command) ==
    /\ prep.phase = "returned"
    /\ prep.content = Token(command)
    /\ prep.shell[command].kind = "exit"

\* C13 as stated: after exit code 0 the token is replaced by the trimmed
\* standard output, and whenever the process also wrote to standard error the
\* suffix "[stderr: <trimmed stderr>]" is appended to the replacement.
C13_StderrAppendedOnSuccess ==
    \A a \in InlineCommands :
        (OnlyTokenExited(a) /\ prep.shell[a].returncode = 0) =>
            IF prep.shell[a].stderr = <<>>
            THEN prep.prompt = Trimmed(prep.shell[a].stdout)
            ELSE prep.prompt \in
                    {Trimmed(prep.shell[a].stdout) \o sep \o StderrSuffix(prep.shell[a].stderr) :
                        sep \in {<<>>, s_nl, s_space}}

\* C13 amended: after exit code 0 the token is replaced by the trimmed standard
\* output, or by "[no output]" when that is empty, and nothing the process wrote
\* to standard error is appended; the suffix a line below the output,
\* "[stderr: <trimmed stderr>]", is appended only after a non-zero exit code of
\* a process that wrote to standard error.
C13_StderrAppendedOnFailureOnly ==
    \A a \in InlineCommands :
        OnlyTokenExited(a) =>
            IF prep.shell[a].returncode = 0
            THEN prep.prompt = (IF Trimmed(prep.shell[a].stdout) # <<>>
                                THEN Trimmed(prep.shell[a].stdout) ELSE s_no_output)
            ELSE prep.shell[a].stderr # <<>> =>
                    prep.prompt = Trimmed(prep.shell[a].stdout) \o s_nl
                                    \o StderrSuffix(prep.shell[a].stderr)

\* C13 witness: c exits with code 0 after writing o to standard output and x to
\* standard error, and the prompt is o alone.
C13_Witness ==
    /\ prep.phase = "returned"
    /\ prep.content = Token(s_c)
    /\ prep.shell[s_c] = Exit(0, s_o, s_x \o s_nl)
    /\ prep.prompt = s_o

--------------------------------------------------------------------------
(* src/loader.py: the components and BridgeLoader.  A markdown file is     *)
(* held as what read_text and parse_frontmatter give for it: whether it    *)
(* can be read, the frontmatter and the body.  A value the loader inspects *)
(* with isinstance carries its Python type.                                *)

PyNone == [t |-> "NoneType", v |-> <<>>]
PyStr(str) == [t |-> "str", v |-> str]
PyList(list) == [t |-> "list", v |-> list]
PyDict(dict) == [t |-> "dict", v |-> dict]

s_foo == <<"f","o","o">>
s_bar == <<"b","a","r">>
s_sub == <<"s","u","b">>
s_nope == <<"n","o","p","e">>
s_md == <<".","m","d">>
s_main == <<"m","a","i","n">>
s_sonnet == <<"s","o","n","n","e","t">>
s_default == <<"d","e","f","a","u","l","t">>
s_version == <<"1",".","0",".","0">>
s_commands == <<"c","o","m","m","a","n","d","s">>
s_agents == <<"a","g","e","n","t","s">>
s_skills == <<"s","k","i","l","l","s">>
s_claude == <<".","c","l","a","u","d","e","/">>

\* d[k] = v
DictSet(d, k, v) ==
    [keys |-> IF k \in DOMAIN d.map THEN d.keys ELSE Append(d.keys, k),
     map |-> (k :> v) @@ d.map]

\* a dict with one key
DictOf(k, v) == DictSet(EmptyDict, k, v)

RECURSIVE Split(_, _)
\* str.split(sep) for a separator of one character
Split(str, sep) ==
    IF \A i \in 1..Len(str) : str[i] # sep THEN <<str>>
    ELSE LET i == CHOOSE i \in 1..Len(str) :
                    str[i] = sep /\ \A j \in 1..(i - 1) : str[j] # sep
         IN <<SubSeq(str, 1, i - 1)>> \o Split(SubSeq(str, i + 1, Len(str)), sep)

RECURSIVE StripAll(_)
\* [t.strip() for t in parts if t.strip()]
StripAll(parts) ==
    IF parts = <<>> THEN <<>>
    ELSE (IF Strip(Head(parts)) # <<>> THEN <<Strip(Head(parts))>> ELSE <<>>)
            \o StripAll(Tail(parts))

RECURSIVE ToolItems(_)
\* the loop of parse_allowed_tools over a list: a str is stripped, the items of a
\* nested list are stripped, anything else is left out
ToolItems(items) ==
    IF items = <<>> THEN <<>>
    ELSE LET item == Head(items) IN
         (IF item.t = "str" THEN <<Strip(item.v)>>
          ELSE IF item.t = "list" THEN [i \in 1..Len(item.v) |-> Strip(item.v[i].v)]
          ELSE <<>>)
            \o ToolItems(Tail(items))

\* parse_allowed_tools(tools_value)
parse_allowed_tools(tools_value) ==
    IF tools_value.t = "NoneType" THEN <<>>
    ELSE IF tools_value.t = "str" THEN StripAll(Split(tools_value.v, ","))
    ELSE IF tools_value.t = "list" THEN ToolItems(tools_value.v)
    ELSE <<>>

RECURSIVE GroupHooks(_, _)
\* the loop of parse_hooks_from_frontmatter over a list of hook dictionaries
GroupHooks(result, hook_list) ==
    IF hook_list = <<>> THEN result
    ELSE LET hook == Head(hook_list)
             hook_type == Get(hook, "type", s_PreToolUse)
             sofar == IF hook_type \in DOMAIN result.map THEN result.map[hook_type] ELSE <<>>
         IN GroupHooks(DictSet(result, hook_type, Append(sofar, hook)), Tail(hook_list))

\* parse_hooks_from_frontmatter(hooks_value)
parse_hooks_from_frontmatter(hooks_value) ==
    IF hooks_value.t = "NoneType" THEN EmptyDict
    ELSE IF hooks_value.t = "dict" THEN hooks_value.v
    ELSE IF hooks_value.t = "list" THEN GroupHooks(EmptyDict, hooks_value.v)
    ELSE EmptyDict

\* the try block of a loader's loop ends in its except clause: the file cannot be
\* read, or its frontmatter is not a mapping
Loadable(file) == file.readable /\ file.frontmatter_is_dict

\* the files a directory of this relative path holds; none when it does not exist
Listing(dir, rel) == IF rel \in DOMAIN dir.tree THEN dir.tree[rel] ELSE <<>>

\* namespace and display name of a command file (loader.py, _load_commands)
Namespace(cmd_file) == cmd_file.parent
DisplayName(cmd_file) ==
    IF Namespace(cmd_file) # <<>> THEN Namespace(cmd_file) \o s_colon \o cmd_file.stem
    ELSE cmd_file.stem

\* Command(...) as _load_commands builds it
Command(cmd_file, scope) ==
    LET frontmatter == cmd_file.frontmatter IN
    [name |-> DisplayName(cmd_file),
     path |-> cmd_file.path,
     description |-> Get(frontmatter, "description", <<>>),
     argument_hint |-> Get(frontmatter, "argument-hint", <<>>),
     allowed_tools |-> parse_allowed_tools(Get(frontmatter, "allowed-tools", PyNone)),
     disallowed_tools |-> parse_allowed_tools(Get(frontmatter, "disallowedTools", PyNone)),
     model |-> Get(frontmatter, "model", None),
     hooks |-> parse_hooks_from_frontmatter(Get(frontmatter, "hooks", PyNone)),
     content |-> cmd_file.body,
     scope |-> scope,
     namespace |-> Namespace(cmd_file),
     context |-> Get(frontmatter, "context", s_main),
     agent |-> Get(frontmatter, "agent", None)]

\* a store that keeps the record a name already has
StoreCommand_KeepFirst(commands, display_name, cmd) ==
    IF display_name \in DOMAIN commands.map THEN commands
    ELSE DictSet(commands, display_name, cmd)

\* self.registry.commands[display_name] = cmd
StoreCommand(commands, display_name, cmd) == DictSet(commands, display_name, cmd)

RECURSIVE _load_commands_StopsAtBroken(_, _, _)
\* _load_commands that leaves the loop at the first file it cannot load
_load_commands_StopsAtBroken(reg, files, scope) ==
    IF files = <<>> THEN reg
    ELSE LET cmd_file == Head(files) IN
         IF cmd_file.suffix = s_md /\ ~Loadable(cmd_file) THEN reg
         ELSE _load_commands_StopsAtBroken(
                IF cmd_file.suffix = s_md
                THEN [reg EXCEPT !.commands =
                        StoreCommand(@, DisplayName(cmd_file), Command(cmd_file, scope))]
                ELSE reg,
                Tail(files), scope)

RECURSIVE _load_commands(_, _, _)
\* BridgeLoader._load_commands over the *.md files rglob finds, in rglob's order
_load_commands(reg, files, scope) ==
    IF files = <<>> THEN reg
    ELSE LET cmd_file == Head(files)
             reg1 == IF cmd_file.suffix = s_md /\ Loadable(cmd_file)
                     THEN [reg EXCEPT !.commands =
                              StoreCommand(@, DisplayName(cmd_file), Command(cmd_file, scope))]
                     ELSE reg
         IN _load_commands(reg1, Tail(files), scope)

\* Subagent(...) as _load_subagents builds it
Subagent(agent_file, scope) ==
    LET frontmatter == agent_file.frontmatter IN
    [name |-> Get(frontmatter, "name", agent_file.stem),
     path |-> agent_file.path,
     description |-> Get(frontmatter, "description", <<>>),
     tools |-> parse_allowed_tools(Get(frontmatter, "tools", PyNone)),
     disallowed_tools |-> parse_allowed_tools(Get(frontmatter, "disallowedTools", PyNone)),
     model |-> Get(frontmatter, "model", s_sonnet),
     permission_mode |-> Get(frontmatter, "permissionMode", s_default),
     hooks |-> parse_hooks_from_frontmatter(Get(frontmatter, "hooks", PyNone)),
     skills |-> Get(frontmatter, "skills", <<>>),
     prompt |-> agent_file.body,
     scope |-> scope]

RECURSIVE _load_subagents(_, _, _)
\* BridgeLoader._load_subagents over the *.md files of the directory itself
_load_subagents(reg, files, scope) ==
    IF files = <<>> THEN reg
    ELSE LET agent_file == Head(files)
             reg1 == IF agent_file.suffix = s_md /\ agent_file.parent = <<>> /\ Loadable(agent_file)
                     THEN [reg EXCEPT !.subagents =
                              DictSet(@, Subagent(agent_file, scope).name,
                                      Subagent(agent_file, scope))]
                     ELSE reg
         IN _load_subagents(reg1, Tail(files), scope)

\* Skill(...) as _load_skills builds it from a skill directory
Skill(skill_dir) ==
    LET frontmatter == skill_dir.skill_md.frontmatter IN
    [name |-> Get(frontmatter, "name", skill_dir.name),
     path |-> skill_dir.skill_md.path,
     description |-> Get(frontmatter, "description", <<>>),
     allowed_tools |-> parse_allowed_tools(Get(frontmatter, "allowed-tools", PyNone)),
     context_mode |-> Get(frontmatter, "context", s_main),
     user_invocable |-> Get(frontmatter, "user-invocable", TRUE),
     hooks |-> parse_hooks_from_frontmatter(Get(frontmatter, "hooks", PyNone)),
     content |-> skill_dir.skill_md.body,
     supporting_files |-> skill_dir.supporting,
     agent |-> Get(frontmatter, "agent", None)]

RECURSIVE _load_skills_StopsAtSkipped(_, _, _)
\* _load_skills that leaves the loop at the first entry it passes over
_load_skills_StopsAtSkipped(reg, entries, scope) ==
    IF entries = <<>> THEN reg
    ELSE LET skill_dir == Head(entries) IN
         IF ~skill_dir.is_dir \/ ~skill_dir.has_skill_md THEN reg
         ELSE _load_skills_StopsAtSkipped(
                IF Loadable(skill_dir.skill_md)
                THEN [reg EXCEPT !.skills = DictSet(@, Skill(skill_dir).name, Skill(skill_dir))]
                ELSE reg,
                Tail(entries), scope)

RECURSIVE _load_skills(_, _, _)
\* BridgeLoader._load_skills over the entries of the directory
_load_skills(reg, entries, scope) ==
    IF entries = <<>> THEN reg
    ELSE LET skill_dir == Head(entries)
             reg1 == IF skill_dir.is_dir /\ skill_dir.has_skill_md /\ Loadable(skill_dir.skill_md)
                     THEN [reg EXCEPT !.skills = DictSet(@, Skill(skill_dir).name, Skill(skill_dir))]
                     ELSE reg
         IN _load_skills(reg1, Tail(entries), scope)

RECURSIVE MergeHookTypes(_, _, _)
\* the loop of _merge_hooks over hooks.items()
MergeHookTypes(registry_hooks, hooks_dict, i) ==
    IF i > Len(hooks_dict.keys) THEN registry_hooks
    ELSE LET hook_type == hooks_dict.keys[i]
             hook_list == hooks_dict.map[hook_type]
             made == IF hook_type \in DOMAIN registry_hooks.map THEN registry_hooks
                     ELSE DictSet(registry_hooks, hook_type, <<>>)
             extended == IF hook_list.t = "list"
                         THEN DictSet(made, hook_type, made.map[hook_type] \o hook_list.v)
                         ELSE made
         IN MergeHookTypes(extended, hooks_dict, i + 1)

\* BridgeLoader._merge_hooks(hooks)
_merge_hooks(reg, hooks_dict) ==
    [reg EXCEPT !.hooks = MergeHookTypes(@, hooks_dict, 1)]

\* Plugin(...) as _load_plugin builds it; its commands, agents and skills lists
\* are never filled
Plugin(plugin_dir, manifest) ==
    [name |-> Get(manifest, "name", plugin_dir.name),
     path |-> plugin_dir.name,
     version |-> Get(manifest, "version", s_version),
     description |-> Get(manifest, "description", <<>>),
     commands |-> <<>>, agents |-> <<>>, skills |-> <<>>,
     hooks |-> EmptyDict,
     mcp_config |-> PyNone]

\* the part of _load_plugin that loads the plugin's commands, agents and skills
LoadPluginComponents(reg, plugin_dir, manifest) ==
    LET r1 == _load_commands(reg, Listing(plugin_dir, Get(manifest, "commands", s_commands)),
                             "plugin")
        r2 == _load_commands(r1, Listing(plugin_dir, s_claude \o s_commands), "plugin")
        r3 == _load_subagents(r2, Listing(plugin_dir, Get(manifest, "agents", s_agents)),
                              "plugin")
        r4 == _load_subagents(r3, Listing(plugin_dir, s_claude \o s_agents), "plugin")
        r5 == _load_skills(r4, Listing(plugin_dir, Get(manifest, "skills", s_skills)), "plugin")
    IN _load_skills(r5, Listing(plugin_dir, s_claude \o s_skills), "plugin")

\* the part of _load_plugin that reads hooks/hooks.json and .mcp.json and stores
\* the plugin; what was stored before an exception stays
RegisterPlugin(reg, plugin_dir, manifest) ==
    LET hooks_json == plugin_dir.hooks_json
        hooks_fail == \/ hooks_json.t \notin {"missing", "dict"}
                      \/ hooks_json.t = "dict" /\ Get(hooks_json.v, "hooks", PyDict(EmptyDict)).t # "dict"
        plugin_hooks == IF hooks_json.t = "dict"
                        THEN Get(hooks_json.v, "hooks", PyDict(EmptyDict)).v
                        ELSE EmptyDict
        merged == IF hooks_json.t = "dict" THEN _merge_hooks(reg, plugin_hooks) ELSE reg
        mcp_fail == plugin_dir.mcp_json.t = "invalid"
        plugin == [Plugin(plugin_dir, manifest) EXCEPT
                        !.hooks = plugin_hooks,
                        !.mcp_config = IF plugin_dir.mcp_json.t = "missing" THEN PyNone
                                       ELSE plugin_dir.mcp_json]
    IN IF hooks_fail THEN reg
       ELSE IF mcp_fail THEN merged
       ELSE [merged EXCEPT !.plugins = DictSet(@, plugin.name, plugin)]

\* _load_plugin that leaves the registry as it was when the plugin is not stored
_load_plugin_Atomic(reg, plugin_dir) ==
    IF plugin_dir.plugin_json.t # "dict" THEN reg
    ELSE LET done == RegisterPlugin(LoadPluginComponents(reg, plugin_dir, plugin_dir.plugin_json.v),
                                    plugin_dir, plugin_dir.plugin_json.v)
         IN IF Get(plugin_dir.plugin_json.v, "name", plugin_dir.name) \in DOMAIN done.plugins.map
            THEN done ELSE reg

\* BridgeLoader._load_plugin(plugin_dir): nothing without a manifest that parses
_load_plugin(reg, plugin_dir) ==
    IF plugin_dir.plugin_json.t # "dict" THEN reg
    ELSE RegisterPlugin(LoadPluginComponents(reg, plugin_dir, plugin_dir.plugin_json.v),
                        plugin_dir, plugin_dir.plugin_json.v)

RECURSIVE LoadPluginDirs(_, _)
\* for plugin_dir in <directory>.iterdir(): if plugin_dir.is_dir(): _load_plugin
LoadPluginDirs(reg, entries) ==
    IF entries = <<>> THEN reg
    ELSE LoadPluginDirs(IF Head(entries).is_dir THEN _load_plugin(reg, Head(entries)) ELSE reg,
                        Tail(entries))

\* BridgeLoader._load_plugins: the directories of .claude-plugins, then the
\* project root if it has a .claude-plugin, then the bridge's own plugins
_load_plugins(reg, disk) ==
    LoadPluginDirs(reg, disk.plugin_dirs
                            \o (IF disk.local_plugin THEN <<disk.root>> ELSE <<>>)
                            \o disk.bridge_plugins)

\* BridgeLoader.load_all
load_all(reg, disk) ==
    LET r1 == _load_commands(reg, Listing(disk.root, s_claude \o s_commands), "project")
        r2 == _load_subagents(r1, Listing(disk.root, s_claude \o s_agents), "project")
        r3 == _load_skills(r2, Listing(disk.root, s_claude \o s_skills), "project")
    IN _load_plugins(r3, disk)

--------------------------------------------------------------------------
(* src/loader.py: parse_frontmatter on the text of a document.  The regular
   expression is matched character by character; yaml.safe_load is computed
   for headers made of the lines below. *)

\* most pieces a document is put together from
MaxDocPieces == 3

s_dashes == <<"-","-","-">>
s_kv == <<"a",":"," ","1">>
s_item == <<"-"," ","a">>
s_open == <<"a",":"," ","[">>

PyInt(n) == [t |-> "int", v |-> n]

\* bool(value)
PyTruthy(value) ==
    IF value.t = "NoneType" THEN FALSE
    ELSE IF value.t = "int" THEN value.v # 0
    ELSE IF value.t = "dict" THEN value.v.keys # <<>>
    ELSE value.v # <<>>

RECURSIVE WhitespaceLen(_, _)
\* the length of the longest run of white space from position i on
WhitespaceLen(str, i) ==
    IF i > Len(str) \/ str[i] \notin Whitespace THEN 0
    ELSE 1 + WhitespaceLen(str, i + 1)

\* \s*\n from position i on: the positions of the newline it can end with
LineEnds(str, i) == {j \in i..(i + WhitespaceLen(str, i) - 1) : str[j] = "\n"}

\* where group 1 of the pattern can end when it starts at position h: before a
\* newline, three dashes and \s*\n
HeaderEnds(str, h) ==
    {e \in (h - 1)..(Len(str) - 4) :
        /\ SubSeq(str, e + 1, e + 4) = s_nl \o s_dashes
        /\ LineEnds(str, e + 5) # {}}

Largest(S) == CHOOSE x \in S : \A y \in S : y <= x
Smallest(S) == CHOOSE x \in S : \A y \in S : x <= y

\* re.match(r'^---\s*\n(.*?)\n---\s*\n(.*)', content, re.DOTALL): \s* takes
\* the most white space it can, group 1 the fewest characters it can
frontmatter_match(content) ==
    LET opens == IF Len(content) >= 3 /\ SubSeq(content, 1, 3) = s_dashes
                 THEN {j \in LineEnds(content, 4) : HeaderEnds(content, j + 1) # {}}
                 ELSE {}
    IN IF opens = {} THEN [matched |-> FALSE, header |-> <<>>, body |-> <<>>]
       ELSE LET h == Largest(opens) + 1
                e == Smallest(HeaderEnds(content, h))
            IN [matched |-> TRUE, header |-> SubSeq(content, h, e),
                body |-> SubSeq(content, Largest(LineEnds(content, e + 5)) + 1, Len(content))]

\* the lines of a header that are neither blank nor the document marker
RECURSIVE ContentLines(_)
ContentLines(lines) ==
    IF lines = <<>> THEN <<>>
    ELSE (IF Strip(Head(lines)) \in {<<>>, s_dashes} THEN <<>> ELSE <<Strip(Head(lines))>>)
            \o ContentLines(Tail(lines))

\* yaml.safe_load on a header whose lines are "a: 1" (a mapping entry), "- a"
\* (a sequence entry), "hi" (a plain scalar), "a: [" (a flow sequence that is
\* never closed), blank, or the document marker: the value, or yaml.YAMLError
yaml_safe_load(header) ==
    LET lines == ContentLines(Split(header, "\n"))
        all(kinds) == \A i \in 1..Len(lines) : lines[i] \in kinds
    IN IF lines = <<>> THEN [kind |-> "value", value |-> PyNone]
       ELSE IF \E i \in 1..Len(lines) : lines[i] = s_open
       THEN [kind |-> "YAMLError", value |-> PyNone]
       ELSE IF all({s_kv})
       THEN [kind |-> "value", value |-> PyDict(DictOf(<<"a">>, PyInt(1)))]
       ELSE IF all({s_item})
       THEN [kind |-> "value", value |-> PyList([i \in 1..Len(lines) |-> PyStr(<<"a">>)])]
       ELSE IF lines[1] = s_hi /\ all({s_hi, s_item})
       THEN [kind |-> "value", value |-> PyStr(Join(s_space, lines))]
       ELSE [kind |-> "YAMLError", value |-> PyNone]

\* parse_frontmatter
parse_frontmatter(content) ==
    LET match == frontmatter_match(content)
        loaded == yaml_safe_load(match.header)
    IN IF match.matched /\ loaded.kind = "value"
       THEN [raised |-> FALSE,
             frontmatter |-> IF PyTruthy(loaded.value) THEN loaded.value
                             ELSE PyDict(EmptyDict),
             body |-> match.body]
       ELSE [raised |-> FALSE, frontmatter |-> PyDict(EmptyDict), body |-> content]

\* the pieces of a document: the delimiter line, bare and with white space
\* behind the dashes, the header lines, a blank line
DocPieces ==
    {s_dashes \o s_nl, s_dashes \o s_space \o s_nl, s_kv \o s_nl, s_item \o s_nl,
     s_hi \o s_nl, s_open \o s_nl, s_nl}

InitParse ==
    /\ InitHooks
    /\ IdleCommandHook
    /\ IdlePrompt
    /\ IdleBridge
    /\ hookRun = [phase |-> "idle"]
    /\ tools = [phase |-> "idle"]
    /\ frames = <<>>
    /\ parsed \in [phase : {"called"}, content : Texts(DocPieces, MaxDocPieces)]

\* parse_frontmatter(content)
ParseFrontmatter ==
    /\ parsed.phase = "called"
    /\ \E out \in {parse_frontmatter(parsed.content)} :
        parsed' = [phase |-> "returned", content |-> parsed.content,
                   raised |-> out.raised, frontmatter |-> out.frontmatter,
                   body |-> out.body]
    /\ UNCHANGED <<hookVars, cmdRun, prep, hookRun, tools, frames, bridgeVars>>

NextParse == ParseFrontmatter

SpecParse == InitParse /\ [][NextParse]_vars

\* whether the document begins with a delimiter line
BeginsWithDelimiter(content) ==
    \E k \in 0..Len(content) :
        /\ Len(content) >= 4 + k
        /\ SubSeq(content, 1, 3) = s_dashes
        /\ \A i \in 4..(3 + k) : content[i] \in Whitespace \ {"\n"}
        /\ content[4 + k] = "\n"

\* C14: parse_frontmatter never raises; a document that does not begin with a
\* delimiter line comes back as ({}, document); a document whose header block
\* does not parse comes back as ({}, the whole text); in every other case the
\* first component returned is a key/value mapping.
C14_FrontmatterIsMapping ==
    parsed.phase = "returned" =>
        /\ ~parsed.raised
        /\ ~BeginsWithDelimiter(parsed.content) =>
                parsed.frontmatter = PyDict(EmptyDict) /\ parsed.body = parsed.content
        /\ parsed.content = s_dashes \o s_nl \o s_open \o s_nl \o s_dashes \o s_nl =>
                parsed.frontmatter = PyDict(EmptyDict) /\ parsed.body = parsed.content
        /\ parsed.frontmatter.t = "dict"

--------------------------------------------------------------------------
(* src/commands.py: get_tool_restrictions and format_for_agent *)

s_comma_space == <<",", " ">>

\* the characters \w matches
WordChars ==
    {UpperCase[i] : i \in 1..26} \cup {LowerCase[i] : i \in 1..26}
        \cup {"0","1","2","3","4","5","6","7","8","9","_"}

RECURSIVE WordLen(_, _)
\* the length of the run of word characters from position i
WordLen(str, i) ==
    IF i > Len(str) \/ str[i] \notin WordChars THEN 0 ELSE 1 + WordLen(str, i + 1)

RECURSIVE NonParenLen(_, _)
\* the length of the run of characters other than ")" from position i
NonParenLen(str, i) ==
    IF i > Len(str) \/ str[i] = ")" THEN 0 ELSE 1 + NonParenLen(str, i + 1)

\* re.match of a word, "(", one or more characters other than ")", and ")"
PatternMatch(tool) ==
    LET w == WordLen(tool, 1)
        n == NonParenLen(tool, w + 2)
    IN IF w > 0 /\ w + 1 <= Len(tool) /\ tool[w + 1] = "(" /\ n > 0 /\ w + 2 + n <= Len(tool)
       THEN [matched |-> TRUE, tool |-> SubSeq(tool, 1, w), pattern |-> SubSeq(tool, w + 2, w + 1 + n)]
       ELSE [matched |-> FALSE, tool |-> <<>>, pattern |-> <<>>]

\* CommandExecutor.get_tool_restrictions
get_tool_restrictions(command) ==
    LET matching == SelectSeq(command.allowed_tools, LAMBDA tool : PatternMatch(tool).matched) IN
    [allowed |-> SelectSeq(command.allowed_tools, LAMBDA tool : ~PatternMatch(tool).matched),
     allowed_patterns |-> [i \in 1..Len(matching) |->
                            [tool |-> PatternMatch(matching[i]).tool,
                             pattern |-> PatternMatch(matching[i]).pattern]],
     disallowed |-> command.disallowed_tools]

\* CommandExecutor.format_for_agent
format_for_agent(command, arguments, files, shell) ==
    LET prompt == prepare_prompt(command.content, arguments, files, shell).prompt
        restrictions == get_tool_restrictions(command)
        patterns == [i \in 1..Len(restrictions.allowed_patterns) |->
                        restrictions.allowed_patterns[i].tool \o <<"(">>
                            \o restrictions.allowed_patterns[i].pattern \o <<")">>]
    IN <<"#"," ","E","x","e","c","u","t","i","n","g"," ","C","o","m","m","a","n","d",":"," ","/">> \o command.name \o <<"\n","\n">>
        \o (IF restrictions.allowed # <<>>
            THEN <<"*","*","A","l","l","o","w","e","d"," ","T","o","o","l","s","*","*",":"," ">> \o Join(s_comma_space, restrictions.allowed) \o s_nl
            ELSE <<>>)
        \o (IF restrictions.allowed_patterns # <<>>
            THEN <<"*","*","T","o","o","l"," ","P","a","t","t","e","r","n","s","*","*",":"," ">> \o Join(s_comma_space, patterns) \o s_nl
            ELSE <<>>)
        \o (IF restrictions.disallowed # <<>>
            THEN <<"*","*","D","i","s","a","l","l","o","w","e","d"," ","T","o","o","l","s","*","*",":"," ">> \o Join(s_comma_space, restrictions.disallowed) \o s_nl
            ELSE <<>>)
        \o (IF Truthy(command.model)
            THEN <<"*","*","P","r","e","f","e","r","r","e","d"," ","M","o","d","e","l","*","*",":"," ">> \o command.model \o s_nl
            ELSE <<>>)
        \o <<"\n","-","-","-","\n","\n">>
        \o prompt

--------------------------------------------------------------------------
(* src/__init__.py: Bridge *)

\* the attributes a HookEngine has (src/hooks.py, class HookEngine)
HookEngineAttrs ==
    {"project_root", "hooks", "executed_once_hooks", "prompt_executor", "agent_executor",
     "register_prompt_executor", "register_agent_executor", "load_hooks",
     "load_hooks_from_file", "load_hooks_from_frontmatter", "execute", "_matches",
     "_execute_hook", "_execute_command_hook", "_execute_prompt_hook",
     "_execute_agent_hook", "_substitute_variables"}

\* the member names of the enum HookType (src/hooks.py)
HookTypeNames ==
    {"PRETOOLUSE", "POSTTOOLUSE", "POSTTOOLUSEFAILURE", "STOP", "SESSIONSTART",
     "SESSIONEND", "SUBAGENTSTART", "SUBAGENTSTOP", "PERMISSIONREQUEST"}

\* Bridge.registry once load has assigned the loader's registry to it
RegistryRef == <<"<BridgeLoader.registry>">>

\* an operation left by an exception, and one that returned a value
Raised(exception, what) ==
    [kind |-> "raised", exception |-> exception, what |-> what, executor_called |-> FALSE]
Returned(value) ==
    [kind |-> "returned", value |-> value, executor_called |-> FALSE]

\* the loop of Bridge.load over the plugins of the registry load_all left
RegisterHooks(loaded) ==
    [registry |-> loaded,
     result |-> IF loaded.plugins.keys # <<>> /\ "register_hooks" \notin HookEngineAttrs
                THEN Raised("AttributeError", "register_hooks")
                ELSE Returned(RegistryRef)]

\* Bridge.load()
load(reg, disk) == RegisterHooks(load_all(reg, disk))

\* if not self.registry: self.load()
EnsureLoaded(reg, breg, disk) ==
    IF breg = None THEN load(reg, disk)
    ELSE [registry |-> reg, result |-> Returned(RegistryRef)]

\* Bridge.list_components() once the registry is there
list_components(reg) ==
    Returned([commands |-> reg.commands.keys, subagents |-> reg.subagents.keys,
              skills |-> reg.skills.keys, plugins |-> reg.plugins.keys])

\* Bridge.execute_command(command_name, arguments) once the registry is there;
\* pre_blocks is what the hook engine would answer to should_block_action
execute_command(reg, command_name, arguments, pre_blocks) ==
    IF command_name \notin DOMAIN reg.commands.map
    THEN Returned([error |-> <<"C","o","m","m","a","n","d"," ","'">> \o command_name \o <<"'"," ","n","o","t"," ","f","o","u","n","d">>,
                   available |-> reg.commands.keys])
    ELSE IF "execute_hooks" \notin HookEngineAttrs
    THEN Raised("AttributeError", "execute_hooks")
    ELSE IF "PRE_TOOL_USE" \notin HookTypeNames
    THEN Raised("AttributeError", "PRE_TOOL_USE")
    ELSE IF "should_block_action" \notin HookEngineAttrs
    THEN Raised("AttributeError", "should_block_action")
    ELSE IF pre_blocks
    THEN IF "get_blocking_message" \notin HookEngineAttrs
         THEN Raised("AttributeError", "get_blocking_message")
         ELSE Returned([blocked |-> TRUE, reason |-> <<>>])
    ELSE LET command == reg.commands.map[command_name] IN
         [kind |-> "returned",
          value |-> [command |-> command_name,
                     prompt |-> format_for_agent(command, arguments, NoFiles, NoShell),
                     allowed_tools |-> command.allowed_tools,
                     disallowed_tools |-> command.disallowed_tools,
                     model |-> command.model,
                     scope |-> command.scope],
          executor_called |-> TRUE]

\* Bridge.get_subagent(agent_name) once the registry is there
get_subagent(reg, agent_name) ==
    IF agent_name \notin DOMAIN reg.subagents.map
    THEN Returned([error |-> <<"S","u","b","a","g","e","n","t"," ","'">> \o agent_name \o <<"'"," ","n","o","t"," ","f","o","u","n","d">>,
                   available |-> reg.subagents.keys])
    ELSE LET agent == reg.subagents.map[agent_name] IN
         Returned([name |-> agent.name, description |-> agent.description,
                   system_prompt |-> agent.prompt, tools |-> agent.tools,
                   disallowed_tools |-> agent.disallowed_tools, model |-> agent.model,
                   permission_mode |-> agent.permission_mode, scope |-> agent.scope])

\* Bridge.get_skill(skill_name) once the registry is there
get_skill(reg, skill_name) ==
    IF skill_name \notin DOMAIN reg.skills.map
    THEN Returned([error |-> <<"S","k","i","l","l"," ","'">> \o skill_name \o <<"'"," ","n","o","t"," ","f","o","u","n","d">>,
                   available |-> reg.skills.keys])
    ELSE LET skill == reg.skills.map[skill_name] IN
         Returned([name |-> skill.name, description |-> skill.description,
                   content |-> skill.content, allowed_tools |-> skill.allowed_tools,
                   context_mode |-> skill.context_mode,
                   user_invocable |-> skill.user_invocable,
                   supporting_files |-> skill.supporting_files])

--------------------------------------------------------------------------
(* The Bridge as a state machine over what is on disk *)

\* most plugin directories under .claude-plugins
MaxPlugins == 2
\* most runs of load_all
MaxLoads == 2

\* a markdown file as read_text and parse_frontmatter give it
MdFile(stem, parent, path, frontmatter, body) ==
    [stem |-> stem, suffix |-> s_md, parent |-> parent, path |-> path, readable |-> TRUE,
     frontmatter_is_dict |-> TRUE, frontmatter |-> frontmatter, body |-> body]

\* the command files of the project's .claude/commands
FooProject ==
    MdFile(s_foo, <<>>, ".claude/commands/foo.md",
           [description |-> <<"p">>, model |-> <<"m">>]
               @@ ("allowed-tools" :> PyStr(<<"B","a","s","h",","," ","R","e","a","d","(","x",")">>)),
           <<"p","b"," ","$","1">>)
\* bar.md declares a hook in its frontmatter
BarProject ==
    MdFile(s_bar, <<>>, ".claude/commands/bar.md",
           [hooks |-> PyDict(DictOf(s_PreToolUse, PyList(<<[command |-> s_c1, once |-> TRUE]>>)))],
           s_d1)
SubFooProject == MdFile(s_foo, s_sub, ".claude/commands/sub/foo.md", <<>>, s_x)
UnreadableFooProject == [FooProject EXCEPT !.readable = FALSE]
ProjectCommands ==
    {<<>>, <<FooProject>>, <<BarProject, FooProject>>, <<SubFooProject>>,
     <<UnreadableFooProject>>}

\* a subagent file and a skill directory of the project
AgentProject ==
    MdFile(<<"r","e","v">>, <<>>, ".claude/agents/rev.md",
           [description |-> <<"r">>] @@ ("tools" :> PyList(<<PyStr(<<" ","R","e","a","d">>)>>)),
           s_hi)
SkillProject ==
    [name |-> <<"s","k">>, is_dir |-> TRUE, has_skill_md |-> TRUE,
     skill_md |-> MdFile(<<"S","K","I","L","L">>, <<>>, ".claude/skills/sk/SKILL.md", <<>>, s_hi),
     supporting |-> <<".claude/skills/sk/ref.txt">>]

\* a plugin directory
PluginDir(name, plugin_json, tree, hooks_json) ==
    [name |-> name, is_dir |-> TRUE, plugin_json |-> plugin_json, tree |-> tree,
     hooks_json |-> hooks_json, mcp_json |-> Missing]

\* the plugin directories found under .claude-plugins: a plugin with a manifest
\* name and a hooks file, one named by its directory that keeps its commands and
\* agents under .claude, one whose manifest is not JSON, one without manifest,
\* one whose hooks file is not JSON, and an entry that is no directory
PlugA ==
    PluginDir(<<"a">>, PyDict([name |-> <<"A">>]),
              (s_commands :> <<MdFile(s_foo, <<>>, "a/commands/foo.md", <<>>, <<"a","b">>)>>),
              PyDict([hooks |-> PyDict(DictOf(s_PreToolUse, PyList(<<[command |-> s_c1]>>)))]))
PlugB ==
    PluginDir(<<"b">>, PyDict(<<>>),
              (s_claude \o s_commands :>
                    <<MdFile(s_foo, <<>>, "b/.claude/commands/foo.md", [model |-> <<"b">>], <<"b","b">>)>>)
                @@ (s_claude \o s_agents :>
                    <<MdFile(<<"r","e","v">>, <<>>, "b/.claude/agents/rev.md", <<>>, s_x)>>),
              Missing)
PlugInvalid ==
    PluginDir(<<"i">>, Invalid,
              (s_commands :> <<MdFile(s_foo, <<>>, "i/commands/foo.md", <<>>, <<"i","b">>)>>), Missing)
PlugNoManifest ==
    PluginDir(<<"n">>, Missing,
              (s_commands :> <<MdFile(s_foo, <<>>, "n/commands/foo.md", <<>>, <<"n","b">>)>>), Missing)
PlugBadHooks ==
    PluginDir(<<"h">>, PyDict(<<>>),
              (s_commands :> <<MdFile(s_foo, <<>>, "h/commands/foo.md", <<>>, <<"h","b">>)>>), Invalid)
NotADirectory == [PlugA EXCEPT !.name = <<"x">>, !.is_dir = FALSE]
PluginPool == {PlugA, PlugB, PlugInvalid, PlugNoManifest, PlugBadHooks, NotADirectory}

\* a plugin of the bridge's own plugins directory
PlugBridge ==
    PluginDir(<<"c">>, PyDict(<<>>),
              (s_commands :> <<MdFile(s_bar, <<>>, "plugins/c/commands/bar.md", <<>>, <<"c","b">>)>>), Missing)

\* the orders in which iterdir can list at most n different directories of the pool
DirListings(pool, n) ==
    {l \in Lists(pool, n) : \A i, j \in 1..Len(l) : i # j => l[i] # l[j]}

\* the project root: its .claude directory, and its plugin manifest if it is a
\* local plugin
ProjectRoot(commands, local) ==
    [name |-> <<"r","o","o","t">>, is_dir |-> TRUE,
     plugin_json |-> IF local THEN PyDict([name |-> <<"L">>]) ELSE Missing,
     tree |-> (s_claude \o s_commands :> commands)
                @@ (s_claude \o s_agents :> <<AgentProject>>)
                @@ (s_claude \o s_skills :> <<SkillProject>>),
     hooks_json |-> Missing, mcp_json |-> Missing]

Disks ==
    {[root |-> ProjectRoot(commands, local), local_plugin |-> local,
      plugin_dirs |-> dirs, bridge_plugins |-> own] :
        commands \in ProjectCommands, local \in BOOLEAN,
        dirs \in DirListings(PluginPool, MaxPlugins), own \in {<<>>, <<PlugBridge>>}}

\* Bridge(project_root) over one of the disks
InitBridge ==
    /\ InitHooks
    /\ IdleCommandHook
    /\ IdlePrompt
    /\ IdleCalls
    /\ fs \in Disks
    /\ registry = BridgeRegistry
    /\ bridge_registry = None
    /\ loads = 0
    /\ outcome = [op |-> "none"]

\* what a call leaves behind when it had to load first
AfterEnsure(ensured) ==
    /\ registry' = ensured.registry
    /\ bridge_registry' = IF bridge_registry = None THEN RegistryRef ELSE bridge_registry
    /\ loads' = IF bridge_registry = None THEN loads + 1 ELSE loads
    /\ UNCHANGED <<fs, hookVars, cmdRun, prep, callVars>>

\* Bridge.load()
Load ==
    /\ loads < MaxLoads
    /\ \E done \in {load(registry, fs)} :
        /\ registry' = done.registry
        /\ outcome' = [op |-> "load", name |-> <<>>] @@ done.result
    /\ bridge_registry' = RegistryRef
    /\ loads' = loads + 1
    /\ UNCHANGED <<fs, hookVars, cmdRun, prep, callVars>>

\* Bridge.list_components()
ListComponents ==
    \E ensured \in {EnsureLoaded(registry, bridge_registry, fs)} :
    /\ outcome' = [op |-> "list_components", name |-> <<>>] @@
                    (IF ensured.result.kind = "raised" THEN ensured.result
                     ELSE list_components(ensured.registry))
    /\ AfterEnsure(ensured)

CommandNames == {s_foo, s_bar, s_nope}
AgentNames == {<<"r","e","v">>, s_nope}
SkillNames == {<<"s","k">>, s_nope}
BridgeArguments == {<<>>, <<s_w>>}

\* what should_block_action can answer: the hook engine has to have the method
PreBlockAnswers == IF "should_block_action" \in HookEngineAttrs THEN BOOLEAN ELSE {FALSE}

\* Bridge.execute_command(command_name, arguments)
ExecuteCommand ==
    \E command_name \in CommandNames, arguments \in BridgeArguments,
       pre_blocks \in PreBlockAnswers :
        \E ensured \in {EnsureLoaded(registry, bridge_registry, fs)} :
        /\ outcome' = [op |-> "execute_command", name |-> command_name] @@
                        (IF ensured.result.kind = "raised" THEN ensured.result
                         ELSE execute_command(ensured.registry, command_name, arguments,
                                              pre_blocks))
        /\ AfterEnsure(ensured)

\* Bridge.get_subagent(agent_name)
GetSubagent ==
    \E agent_name \in AgentNames :
        \E ensured \in {EnsureLoaded(registry, bridge_registry, fs)} :
        /\ outcome' = [op |-> "get_subagent", name |-> agent_name] @@
                        (IF ensured.result.kind = "raised" THEN ensured.result
                         ELSE get_subagent(ensured.registry, agent_name))
        /\ AfterEnsure(ensured)

\* Bridge.get_skill(skill_name)
GetSkill ==
    \E skill_name \in SkillNames :
        \E ensured \in {EnsureLoaded(registry, bridge_registry, fs)} :
        /\ outcome' = [op |-> "get_skill", name |-> skill_name] @@
                        (IF ensured.result.kind = "raised" THEN ensured.result
                         ELSE get_skill(ensured.registry, skill_name))
        /\ AfterEnsure(ensured)

NextBridge ==
    \/ Load
    \/ ListComponents
    \/ ExecuteCommand
    \/ GetSubagent
    \/ GetSkill

SpecBridge == InitBridge /\ [][NextBridge]_vars

\* C3: execute_command for a command name the registry holds returns either
\* {blocked: true, reason} without having called the Command Executor, or a
\* result carrying the resolved prompt.  It is stated for the projects without a
\* registered plugin, where the load that may precede the lookup returns.
C3_HooksThenPrompt ==
    (/\ outcome.op = "execute_command"
     /\ outcome.name \in DOMAIN registry.commands.map
     /\ registry.plugins.keys = <<>>) =>
        /\ outcome.kind = "returned"
        /\ \/ /\ "blocked" \in DOMAIN outcome.value
              /\ outcome.value.blocked
              /\ ~outcome.executor_called
           \/ /\ "prompt" \in DOMAIN outcome.value
              /\ outcome.executor_called

\* C6: every public operation of Bridge returns a value, whatever the registry
\* holds; none is left by an exception.
C6_NeverRaises ==
    outcome.op # "none" => outcome.kind = "returned"

\* the range of a list
Range(list) == {list[i] : i \in 1..Len(list)}

\* the loadable command files of a directory that have the display name foo
FooFiles(files) ==
    {f \in Range(files) : f.suffix = s_md /\ Loadable(f) /\ DisplayName(f) = s_foo}

\* the directories load_all loads as plugins: those with a manifest
PluginsOnDisk ==
    {d \in Range(fs.plugin_dirs) \cup Range(fs.bridge_plugins) :
        d.is_dir /\ d.plugin_json.t = "dict"}
    \cup (IF fs.local_plugin /\ fs.root.plugin_json.t = "dict" THEN {fs.root} ELSE {})

\* the files with which the project, and with which the plugins, define foo
ProjectFoo == FooFiles(Listing(fs.root, s_claude \o s_commands))
PluginFoo ==
    UNION {FooFiles(Listing(d, Get(d.plugin_json.v, "commands", s_commands)))
            \cup FooFiles(Listing(d, s_claude \o s_commands)) : d \in PluginsOnDisk}

\* C4: once load_all has run on a project whose .claude/commands defines foo and
\* one of whose plugins defines foo (in one file), registry.commands["foo"] is
\* the record of the plugin's file: scope "plugin", that file's path, body and
\* frontmatter fields, the defaults where the file sets none.
C4_PluginRecordReplacesProject ==
    (bridge_registry # None /\ ProjectFoo # {} /\ Cardinality(PluginFoo) = 1) =>
        LET plugin_file == CHOOSE f \in PluginFoo : TRUE
            cmd == registry.commands.map[s_foo]
        IN /\ cmd.scope = "plugin"
           /\ cmd.path = plugin_file.path
           /\ cmd.content = plugin_file.body
           /\ cmd.description = Get(plugin_file.frontmatter, "description", <<>>)
           /\ cmd.model = Get(plugin_file.frontmatter, "model", None)
           /\ ("allowed-tools" \notin DOMAIN plugin_file.frontmatter => cmd.allowed_tools = <<>>)
           /\ cmd = Command(plugin_file, "plugin")

\* C4 witness: the project's foo has a description, a model and allowed tools,
\* the plugin's foo has none, and the stored record is the plugin's with an
\* empty description, no model and no tools.
C4_Witness ==
    /\ bridge_registry # None
    /\ ProjectFoo = {FooProject}
    /\ Cardinality(PluginFoo) = 1
    /\ PluginFoo # ProjectFoo
    /\ registry.commands.map[s_foo].scope = "plugin"
    /\ registry.commands.map[s_foo].content = <<"a","b">>
    /\ registry.commands.map[s_foo].description = <<>>
    /\ registry.commands.map[s_foo].model = None
    /\ registry.commands.map[s_foo].allowed_tools = <<>>

--------------------------------------------------------------------------
(* load_all by itself, over project directories that hold files which cannot
   be read or parsed, skill directories without SKILL.md and entries that are
   no directories *)

\* most entries of the project's commands, agents and skills directories
MaxEntries == 2

SkillMd(path) == MdFile(<<"S","K","I","L","L">>, <<>>, path, <<>>, s_hi)

\* command files: one that cannot be read, one whose frontmatter is no mapping
BazUnreadable ==
    [MdFile(<<"b","a","z">>, <<>>, ".claude/commands/baz.md", <<>>, s_x)
        EXCEPT !.readable = FALSE]
QuxScalar ==
    [MdFile(<<"q","u","x">>, <<>>, ".claude/commands/qux.md", <<>>, s_x)
        EXCEPT !.frontmatter_is_dict = FALSE]
\* an agent file that cannot be read
AgentUnreadable ==
    [MdFile(<<"b","a","d">>, <<>>, ".claude/agents/bad.md", <<>>, s_x)
        EXCEPT !.readable = FALSE]
\* entries of a skills directory: a directory whose SKILL.md does not parse, a
\* directory without SKILL.md, and a file
SkillBroken ==
    [name |-> <<"s","b">>, is_dir |-> TRUE, has_skill_md |-> TRUE,
     skill_md |-> [SkillMd(".claude/skills/sb/SKILL.md") EXCEPT !.frontmatter_is_dict = FALSE],
     supporting |-> <<>>]
SkillDirEmpty ==
    [name |-> <<"e","m">>, is_dir |-> TRUE, has_skill_md |-> FALSE,
     skill_md |-> SkillMd(".claude/skills/em/SKILL.md"), supporting |-> <<>>]
SkillsReadme ==
    [name |-> <<"R","E","A","D","M","E">>, is_dir |-> FALSE, has_skill_md |-> FALSE,
     skill_md |-> SkillMd(".claude/skills/README/SKILL.md"), supporting |-> <<>>]

\* a plugin whose commands and skills directories each hold a broken entry
\* before a loadable one
PlugMixed ==
    PluginDir(<<"m">>, PyDict(<<>>),
              (s_commands :>
                    <<[MdFile(<<"m","1">>, <<>>, "m/commands/m1.md", <<>>, s_x)
                            EXCEPT !.readable = FALSE],
                      MdFile(<<"m","2">>, <<>>, "m/commands/m2.md", <<>>, s_x)>>)
                @@ (s_skills :>
                    <<[name |-> <<"m","e">>, is_dir |-> TRUE, has_skill_md |-> FALSE,
                       skill_md |-> SkillMd("m/skills/me/SKILL.md"), supporting |-> <<>>],
                      [name |-> <<"m","s">>, is_dir |-> TRUE, has_skill_md |-> TRUE,
                       skill_md |-> SkillMd("m/skills/ms/SKILL.md"), supporting |-> <<>>]>>),
              Missing)

LoaderDisks ==
    {[root |-> [name |-> <<"r","o","o","t">>, is_dir |-> TRUE, plugin_json |-> Missing,
                tree |-> (s_claude \o s_commands :> commands)
                            @@ (s_claude \o s_agents :> agents)
                            @@ (s_claude \o s_skills :> skills),
                hooks_json |-> Missing, mcp_json |-> Missing],
      local_plugin |-> FALSE, plugin_dirs |-> dirs, bridge_plugins |-> <<>>] :
        commands \in DirListings({FooProject, BarProject, BazUnreadable, QuxScalar}, MaxEntries),
        agents \in {<<>>, <<AgentProject>>, <<AgentUnreadable, AgentProject>>},
        skills \in DirListings({SkillProject, SkillBroken, SkillDirEmpty, SkillsReadme}, MaxEntries),
        dirs \in {<<>>, <<PlugMixed>>}}

RECURSIVE skill_warnings(_)
\* the skill directories for which _load_skills prints its warning
skill_warnings(entries) ==
    IF entries = <<>> THEN <<>>
    ELSE (IF /\ Head(entries).is_dir
             /\ Head(entries).has_skill_md
             /\ ~Loadable(Head(entries).skill_md)
          THEN <<Head(entries).name>> ELSE <<>>)
            \o skill_warnings(Tail(entries))

\* BridgeLoader(project_root) over one of the disks
InitLoader ==
    /\ InitHooks
    /\ IdleCommandHook
    /\ IdlePrompt
    /\ IdleCalls
    /\ fs \in LoaderDisks
    /\ registry = BridgeRegistry
    /\ bridge_registry = None
    /\ loads = 0
    /\ outcome = [op |-> "none"]

\* BridgeLoader.load_all()
LoadAll ==
    /\ loads < MaxLoads
    /\ \E done \in {load_all(registry, fs)} : registry' = done
    /\ loads' = loads + 1
    /\ outcome' = [op |-> "load_all",
                   skill_warnings |-> skill_warnings(Listing(fs.root, s_claude \o s_skills))]
    /\ UNCHANGED <<fs, bridge_registry, hookVars, cmdRun, prep, callVars>>

NextLoader == LoadAll

SpecLoader == InitLoader /\ [][NextLoader]_vars

\* the entries of the skills directories load_all goes through
SkillEntries ==
    Range(Listing(fs.root, s_claude \o s_skills))
        \cup UNION {Range(Listing(d, s_skills)) : d \in Range(fs.plugin_dirs)}

\* the paths the skill records of the registry were read from
SkillPaths == {registry.skills.map[k].path : k \in DOMAIN registry.skills.map}

\* C15: after a load pass registry.skills has no entry that comes from a
\* directory without SKILL.md; such a directory, and an entry that is no
\* directory, is passed over without a warning, and the skill directories next
\* to it are loaded.
C15_NoSkillWithoutSkillFile ==
    loads > 0 =>
        /\ \A e \in SkillEntries :
            (~e.is_dir \/ ~e.has_skill_md) =>
                /\ e.skill_md.path \notin SkillPaths
                /\ e.name \notin DOMAIN registry.skills.map
                /\ e.name \notin Range(outcome.skill_warnings)
        /\ \A e \in SkillEntries :
            (e.is_dir /\ e.has_skill_md /\ Loadable(e.skill_md)) =>
                /\ e.name \in DOMAIN registry.skills.map
                /\ registry.skills.map[e.name].path = e.skill_md.path

\* C15 witness: the skills directory lists a directory without SKILL.md before
\* a skill, and after the load pass the registry holds that skill alone.
C15_Witness ==
    /\ loads > 0
    /\ Listing(fs.root, s_claude \o s_skills) = <<SkillDirEmpty, SkillProject>>
    /\ fs.plugin_dirs = <<>>
    /\ registry.skills.keys = <<SkillProject.name>>
    /\ outcome.skill_warnings = <<>>

\* the component files load_all reads: command and agent files, and the
\* SKILL.md of the skill directories that have one
ComponentFiles ==
    LET dirs == {fs.root} \cup Range(fs.plugin_dirs) IN
    UNION {Range(Listing(d, s_claude \o s_commands)) \cup Range(Listing(d, s_commands))
            \cup Range(Listing(d, s_claude \o s_agents)) : d \in dirs}
        \cup {e.skill_md : e \in {e \in SkillEntries : e.is_dir /\ e.has_skill_md}}

\* the paths the records of the registry were read from
ComponentPaths ==
    {registry.commands.map[k].path : k \in DOMAIN registry.commands.map}
        \cup {registry.subagents.map[k].path : k \in DOMAIN registry.subagents.map}
        \cup SkillPaths

\* the disk without the component files that cannot be read or parsed
WithoutBroken(disk) ==
    LET Fixed(dir) ==
            [dir EXCEPT !.tree =
                [rel \in DOMAIN dir.tree |->
                    IF rel \in {s_skills, s_claude \o s_skills}
                    THEN SelectSeq(dir.tree[rel],
                                   LAMBDA e : ~(e.is_dir /\ e.has_skill_md /\ ~Loadable(e.skill_md)))
                    ELSE SelectSeq(dir.tree[rel], LAMBDA f : Loadable(f))]]
    IN [disk EXCEPT !.root = Fixed(disk.root),
                    !.plugin_dirs = [i \in 1..Len(disk.plugin_dirs) |-> Fixed(disk.plugin_dirs[i])]]

\* C16: a component file that cannot be read or parsed is passed over and
\* nothing else is: it leaves no record, every other loadable command, subagent
\* and skill of the same and of the later directories and plugins is in the
\* registry load_all returns, and that registry is the one load_all builds when
\* the broken files are not there.
C16_BrokenFileOnlySkipped ==
    loads > 0 =>
        /\ \A f \in ComponentFiles : ~Loadable(f) => f.path \notin ComponentPaths
        /\ \A f \in ComponentFiles : Loadable(f) => f.path \in ComponentPaths
        /\ registry = load_all(BridgeRegistry, WithoutBroken(fs))

\* C16 witness: the commands directory lists an unreadable file before foo.md, the
\* agents directory an unreadable file before rev.md, and the registry holds foo
\* and rev.
C16_Witness ==
    /\ loads > 0
    /\ Listing(fs.root, s_claude \o s_commands) = <<BazUnreadable, FooProject>>
    /\ Listing(fs.root, s_claude \o s_agents) = <<AgentUnreadable, AgentProject>>
    /\ fs.plugin_dirs = <<PlugMixed>>
    /\ registry.commands.keys = <<s_foo, <<"m","2">>>>
    /\ registry.subagents.keys = <<AgentProject.stem>>

\* the mapping of the registry a lookup operation of Bridge looks the name up in
LookupMapping(op) ==
    IF op = "execute_command" THEN registry.commands
    ELSE IF op = "get_subagent" THEN registry.subagents
    ELSE registry.skills

\* C17: execute_command, get_subagent and get_skill, called with a name that is
\* no key of the registry's mapping, return a result with an error message and
\* the list of the valid names; they do not raise, run no hook and prepare no
\* prompt.
C17_UnknownNameGivesError ==
    (/\ outcome.op \in {"execute_command", "get_subagent", "get_skill"}
     /\ outcome.name \notin DOMAIN LookupMapping(outcome.op).map) =>
        /\ outcome.kind = "returned"
        /\ DOMAIN outcome.value = {"error", "available"}
        /\ Contains(outcome.value.error, outcome.name)
        /\ outcome.value.available = LookupMapping(outcome.op).keys
        /\ ~outcome.executor_called

--------------------------------------------------------------------------
(* Bridge.load and the hook engine: what of the loaded registry's hooks the
   engine holds once load has returned *)

\* the hook dictionaries a hooks mapping holds for an event type
HookDictsOf(hooks_dict, type_str) ==
    IF type_str \in DOMAIN hooks_dict.map /\ hooks_dict.map[type_str].t = "list"
    THEN Range(hooks_dict.map[type_str].v)
    ELSE {}

\* the hooks mappings of the loaded registry: the bundle of every plugin and
\* the frontmatter hooks of every command, subagent and skill
LoadedHookMappings ==
    {registry.plugins.map[k].hooks : k \in DOMAIN registry.plugins.map}
        \cup {registry.commands.map[k].hooks : k \in DOMAIN registry.commands.map}
        \cup {registry.subagents.map[k].hooks : k \in DOMAIN registry.subagents.map}
        \cup {registry.skills.map[k].hooks : k \in DOMAIN registry.skills.map}

\* C21: once Bridge.load has returned, every hook configuration of every loaded
\* plugin's bundle and every hook of the frontmatter of a loaded command,
\* subagent or skill is in the hook engine's list for its event type.
C21_EngineSeededAfterLoad ==
    (outcome.op = "load" /\ outcome.kind = "returned") =>
        \A m \in LoadedHookMappings : \A t \in HookType : \A d \in HookDictsOf(m, t) :
            /\ t \in DOMAIN hooks
            /\ HookConfig(d) \in Range(hooks[t])

--------------------------------------------------------------------------
(* parse_allowed_tools by itself: one call on a comma-delimited string, a
   flat list or a list nested one level *)

\* most pieces of a comma-delimited string, most items of a list
MaxToolPieces == 3

s_a == <<"a">>

\* what the strings are made of, and the items of the lists: names with
\* whitespace around them, a blank item and a nested list with an empty item
ToolPieces == {s_a, <<",">>, s_space}
ToolListItems ==
    <<PyStr(s_space \o s_a), PyStr(s_space), PyStr(s_x),
      PyList(<<PyStr(s_c \o s_space), PyStr(<<>>)>>)>>

\* the list made of the items at these places of ToolListItems
ToolList(places) == PyList([i \in 1..Len(places) |-> ToolListItems[places[i]]])

InitTools ==
    /\ InitHooks
    /\ IdleCommandHook
    /\ IdlePrompt
    /\ IdleBridge
    /\ hookRun = [phase |-> "idle"]
    /\ parsed = [phase |-> "idle"]
    /\ frames = <<>>
    /\ \/ tools = [phase |-> "called", tools_value |-> PyNone]
       \/ \E text \in Texts(ToolPieces, MaxToolPieces) :
            tools = [phase |-> "called", tools_value |-> PyStr(text)]
       \/ \E places \in Lists(1..Len(ToolListItems), MaxToolPieces) :
            tools = [phase |-> "called", tools_value |-> ToolList(places)]

\* parse_allowed_tools(tools_value)
ParseAllowedTools ==
    /\ tools.phase = "called"
    /\ tools' = [phase |-> "returned", tools_value |-> tools.tools_value,
                 result |-> parse_allowed_tools(tools.tools_value)]
    /\ UNCHANGED <<hookVars, cmdRun, prep, hookRun, parsed, frames, bridgeVars>>

NextTools == ParseAllowedTools

SpecTools == InitTools /\ [][NextTools]_vars

RECURSIVE Flattened(_)
\* the strings of a list whose items are strings or lists of strings, in order
Flattened(items) ==
    IF items = <<>> THEN <<>>
    ELSE (IF Head(items).t = "list" THEN [i \in 1..Len(Head(items).v) |-> Head(items).v[i].v]
          ELSE <<Head(items).v>>)
            \o Flattened(Tail(items))

\* the entries of a value of one of the accepted shapes, in input order
ToolEntries(tools_value) ==
    IF tools_value.t = "str" THEN Split(tools_value.v, ",")
    ELSE IF tools_value.t = "list" THEN Flattened(tools_value.v)
    ELSE <<>>

\* C22: parse_allowed_tools maps a comma-delimited string, a flat list and a
\* list nested one level to the sequence of its entries in input order, each
\* trimmed of surrounding whitespace, the empty ones left out: every entry of the
\* result is trimmed and none is empty.
C22_ToolsTrimmedNonEmpty ==
    tools.phase = "returned" =>
        /\ \A i \in 1..Len(tools.result) :
            /\ tools.result[i] # <<>>
            /\ Strip(tools.result[i]) = tools.result[i]
        /\ tools.result = StripAll(ToolEntries(tools.tools_value))

--------------------------------------------------------------------------
(* load_all over a commands root whose files lie in the root and in a
   subdirectory, and over plugins that load completely or fail half-way *)

\* a command file of the root whose name holds a colon
ColonFooProject ==
    MdFile(s_sub \o s_colon \o s_foo, <<>>, ".claude/commands/sub:foo.md", <<>>, s_hi)

\* the files of the project's commands root
NameFiles == {FooProject, SubFooProject, ColonFooProject}

\* the components of a plugin directory: one command, one subagent, one skill
PluginTree(dir, stem) ==
    (s_commands :> <<MdFile(stem, <<>>, dir \o "/commands/c.md", <<>>, s_x)>>)
        @@ (s_agents :> <<MdFile(stem, <<>>, dir \o "/agents/a.md", <<>>, s_x)>>)
        @@ (s_skills :> <<[name |-> stem, is_dir |-> TRUE, has_skill_md |-> TRUE,
                           skill_md |-> SkillMd(dir \o "/skills/s/SKILL.md"),
                           supporting |-> <<>>]>>)

\* a hooks/hooks.json with one hook for PreToolUse
HooksJson(command) ==
    PyDict([hooks |-> PyDict(DictOf(s_PreToolUse, PyList(<<[command |-> command]>>)))])

\* plugins: one that loads completely, one whose hooks/hooks.json is not JSON,
\* one whose .mcp.json is not JSON
PlugWhole ==
    [PluginDir(<<"w">>, PyDict(<<>>), PluginTree("w", <<"w","1">>), HooksJson(s_w))
        EXCEPT !.mcp_json = PyDict(<<>>)]
PlugHalfHooks == PluginDir(<<"h","h">>, PyDict(<<>>), PluginTree("hh", <<"h","1">>), Invalid)
PlugHalfMcp ==
    [PluginDir(<<"h","m">>, PyDict(<<>>), PluginTree("hm", <<"m","1">>), HooksJson(s_c1))
        EXCEPT !.mcp_json = Invalid]
LoadPassPlugins == {PlugWhole, PlugHalfHooks, PlugHalfMcp}

LoadPassDisks ==
    {[root |-> [name |-> <<"r","o","o","t">>, is_dir |-> TRUE, plugin_json |-> Missing,
                tree |-> (s_claude \o s_commands :> commands),
                hooks_json |-> Missing, mcp_json |-> Missing],
      local_plugin |-> FALSE, plugin_dirs |-> dirs, bridge_plugins |-> <<>>] :
        commands \in DirListings(NameFiles, MaxEntries),
        dirs \in DirListings(LoadPassPlugins, MaxPlugins)}

\* BridgeLoader(project_root) over one of the disks
InitLoadPass ==
    /\ InitHooks
    /\ IdleCommandHook
    /\ IdlePrompt
    /\ IdleCalls
    /\ fs \in LoadPassDisks
    /\ registry = BridgeRegistry
    /\ bridge_registry = None
    /\ loads = 0
    /\ outcome = [op |-> "none"]

SpecLoadPass == InitLoadPass /\ [][NextLoader]_vars

\* the command files of the project's commands root
RootCommandFiles == Range(Listing(fs.root, s_claude \o s_commands))

\* C26: within one commands root the display name of a command is the file
\* stem for a file of the root itself and "<namespace>:<stem>" otherwise, the
\* namespace being the parent path relative to the root; two command files with
\* different (namespace, stem) pairs have different display names, and after a
\* load pass registry.commands holds the record of each.
C26_DisplayNamesDistinct ==
    loads > 0 =>
        /\ \A f \in RootCommandFiles :
                /\ DisplayName(f) = IF f.parent = <<>> THEN f.stem
                                    ELSE f.parent \o s_colon \o f.stem
                /\ DisplayName(f) \in DOMAIN registry.commands.map
        /\ \A f, g \in RootCommandFiles :
                <<f.parent, f.stem>> # <<g.parent, g.stem>> =>
                    /\ DisplayName(f) # DisplayName(g)
                    /\ {f.path, g.path} \subseteq ComponentPaths


\* the plugin directories of the disk that have a manifest
ManifestPlugins == {d \in Range(fs.plugin_dirs) : d.is_dir /\ d.plugin_json.t = "dict"}

\* the paths of the component files of a plugin directory
PluginComponentPaths(d) ==
    {f.path : f \in Range(Listing(d, s_commands)) \cup Range(Listing(d, s_agents))}
        \cup {e.skill_md.path : e \in Range(Listing(d, s_skills))}

\* the hook dictionaries registry.hooks holds for an event type
RegistryHooksOf(type_str) ==
    IF type_str \in DOMAIN registry.hooks.map THEN Range(registry.hooks.map[type_str]) ELSE {}

\* C30: a plugin is in registry.plugins exactly when every step of _load_plugin
\* completed; when hooks/hooks.json or .mcp.json is malformed the plugin is not
\* entered, but its commands, subagents and skills, and the hooks merged before
\* the failing step, are in the registry, and so are the components and the
\* entry of every other plugin of the load pass.
C30_PluginLoadNotAtomic ==
    loads > 0 =>
        \A d \in ManifestPlugins :
            /\ d.name \in DOMAIN registry.plugins.map
                    <=> (d.hooks_json.t # "invalid" /\ d.mcp_json.t # "invalid")
            /\ PluginComponentPaths(d) \subseteq ComponentPaths
            /\ d.hooks_json.t = "dict" =>
                    HookDictsOf(d.hooks_json.v.hooks.v, s_PreToolUse)
                        \subseteq RegistryHooksOf(s_PreToolUse)

\* C30 witness: the plugin whose .mcp.json is malformed is listed before a
\* plugin that loads completely; the first is not in registry.plugins while its
\* command, subagent, skill and hook are in the registry, and the second is.
C30_Witness ==
    /\ loads > 0
    /\ fs.plugin_dirs = <<PlugHalfMcp, PlugWhole>>
    /\ registry.plugins.keys = <<PlugWhole.name>>
    /\ <<"m","1">> \in DOMAIN registry.commands.map
    /\ <<"m","1">> \in DOMAIN registry.subagents.map
    /\ <<"m","1">> \in DOMAIN registry.skills.map
    /\ [command |-> s_c1] \in RegistryHooksOf(s_PreToolUse)
    /\ <<"w","1">> \in DOMAIN registry.commands.map

--------------------------------------------------------------------------
(* HookEngine.execute step by step, with a prompt executor that may call
   execute again while it runs for a hook *)

\* most execute calls in progress at the same time
MaxDepth == 2
\* most execute calls the executors make during one call from outside
MaxNested == 1
\* most execute calls made from outside the engine
MaxOuter == 1

\* the hook dictionaries handed to load_hooks: prompt hooks with and without
\* the once flag
NestedPool ==
    {[type |-> s_prompt, prompt |-> s_c1, once |-> TRUE],
     [type |-> s_prompt, matcher |-> s_bash, prompt |-> s_c2, once |-> TRUE],
     [type |-> s_prompt, matcher |-> s_WriteOrEdit, prompt |-> s_c2]}

NestedToolNames == {s_Bash, s_WriteFile}

\* what the executor answers: a text without and with the veto, or an exception
NestedReplies ==
    {r \in ReplyOutcomes : r.kind = "raises" \/ r.value \in {s_ok, s_Blocked}}

\* no nested call has returned to the running executor
NoInner == [done |-> FALSE, tool_name |-> <<>>, ran |-> {}, below |-> {}, stopped |-> 0]

\* the frame of execute(hook_type, context) at the head of its loop: ran are the
\* hooks the call has executed itself, below those executed by the calls its
\* executors made, nested counts the calls the running executor has made, made
\* those of every executor within the call, and inner is the last call that
\* returned to the running executor
Frame(type_str, tool_name) ==
    [type_str |-> type_str, tool_name |-> tool_name, i |-> 1, result |-> CONTINUE,
     running |-> FALSE, nested |-> 0, made |-> 0, ran |-> {}, below |-> {},
     stopped |-> 0, inner |-> NoInner]

\* the innermost call in progress, the hooks it iterates over and the hook it is at
Top == frames[Len(frames)]
TopHooks == HooksOf(hooks, Top.type_str)
TopHook == TopHooks[Top.i]
TopId == HookId(Top.type_str, TopHook)

\* the frames with the innermost replaced
WithTop(frame) == [frames EXCEPT ![Len(frames)] = frame]

\* whether the innermost call is at the head of its loop with a hook to look at
AtHook ==
    /\ frames # <<>>
    /\ ~Top.running
    /\ Top.stopped = 0
    /\ Top.i <= Len(TopHooks)

\* the frame once its hook resolved to hook_result (lines 154-158)
Resolved(frame, hook_result) ==
    LET handled == HandleResult(hook_result, frame.result) IN
    [frame EXCEPT !.running = FALSE,
                  !.result = handled.result,
                  !.stopped = IF handled.return THEN frame.i ELSE 0,
                  !.i = IF handled.return THEN frame.i ELSE frame.i + 1]

\* the count of executions with one more for the hook the innermost call is at
DispatchedTop ==
    [dispatched EXCEPT ![Top.type_str][Top.i] = @ + 1]

\* load_hooks with hook dictionaries of NestedPool for PreToolUse, between calls
LoadNestedHooks ==
    /\ frames = <<>>
    /\ Total(hooks) < MaxHooks
    /\ \E hook_list \in HookLists(NestedPool, MaxHooks - Total(hooks)) :
        /\ hooks' = load_hooks(hooks, (s_PreToolUse :> hook_list))
        /\ dispatched' = [t \in DOMAIN hooks' |->
                            [i \in 1..Len(hooks'[t]) |->
                                IF t \in DOMAIN hooks /\ i <= Len(hooks[t])
                                THEN dispatched[t][i] ELSE 0]]
    /\ UNCHANGED <<executed_once_hooks, prompt_executor, agent_executor, calls, lastCall>>
    /\ UNCHANGED <<cmdRun, prep, callVars, bridgeVars>>

\* HookEngine.register_prompt_executor, between calls
RegisterNestedExecutor ==
    /\ frames = <<>>
    /\ RegisterPromptExecutor

\* execute(HookType.PRETOOLUSE, context) is called from outside the engine
BeginExecute ==
    /\ frames = <<>>
    /\ calls < MaxOuter
    /\ \E tool_name \in NestedToolNames : frames' = <<Frame(s_PreToolUse, tool_name)>>
    /\ calls' = calls + 1
    /\ UNCHANGED <<hooks, executed_once_hooks, prompt_executor, agent_executor,
                   dispatched, lastCall>>
    /\ UNCHANGED <<cmdRun, prep, hookRun, parsed, tools, bridgeVars>>

\* the loop passes over a hook: its matcher does not match, or it is a once
\* hook already recorded (lines 139-145)
SkipHook ==
    /\ AtHook
    /\ \/ ~Matches(TopHook.matcher, Top.tool_name)
       \/ OnceSkip(TopHook, TopId, executed_once_hooks)
    /\ frames' = WithTop([Top EXCEPT !.i = @ + 1])
    /\ UNCHANGED <<hookVars, cmdRun, prep, hookRun, parsed, tools, bridgeVars>>

\* _execute_hook is entered with the once set recorded before anything is run
CallExecutor_MarksFirst ==
    /\ AtHook
    /\ Matches(TopHook.matcher, Top.tool_name)
    /\ ~OnceSkip(TopHook, TopId, executed_once_hooks)
    /\ prompt_executor # None
    /\ frames' = WithTop([Top EXCEPT !.running = TRUE, !.nested = 0, !.inner = NoInner,
                                     !.ran = @ \cup {Top.i}])
    /\ dispatched' = DispatchedTop
    /\ executed_once_hooks' = MarkOnce(TopHook, TopId, executed_once_hooks)
    /\ UNCHANGED <<hooks, prompt_executor, agent_executor, calls, lastCall>>
    /\ UNCHANGED <<cmdRun, prep, hookRun, parsed, tools, bridgeVars>>

\* _execute_hook is entered for a prompt hook and calls the registered executor
\* (lines 148, 237); the once set is as it was
CallExecutor ==
    /\ AtHook
    /\ Matches(TopHook.matcher, Top.tool_name)
    /\ ~OnceSkip(TopHook, TopId, executed_once_hooks)
    /\ prompt_executor # None
    /\ frames' = WithTop([Top EXCEPT !.running = TRUE, !.nested = 0, !.inner = NoInner,
                                     !.ran = @ \cup {Top.i}])
    /\ dispatched' = DispatchedTop
    /\ UNCHANGED <<hooks, executed_once_hooks, prompt_executor, agent_executor,
                   calls, lastCall>>
    /\ UNCHANGED <<cmdRun, prep, hookRun, parsed, tools, bridgeVars>>

\* _execute_hook for a prompt hook while no executor is registered: ERROR at
\* once (lines 232-233); the hook is recorded and the result handled
ExecuteWithoutExecutor ==
    /\ AtHook
    /\ Matches(TopHook.matcher, Top.tool_name)
    /\ ~OnceSkip(TopHook, TopId, executed_once_hooks)
    /\ prompt_executor = None
    /\ frames' = WithTop(Resolved([Top EXCEPT !.ran = @ \cup {Top.i}],
                                  _execute_prompt_hook(TopHook, prompt_executor, NoEnv)))
    /\ dispatched' = DispatchedTop
    /\ executed_once_hooks' = MarkOnce(TopHook, TopId, executed_once_hooks)
    /\ UNCHANGED <<hooks, prompt_executor, agent_executor, calls, lastCall>>
    /\ UNCHANGED <<cmdRun, prep, hookRun, parsed, tools, bridgeVars>>

\* the running executor calls execute(HookType.PRETOOLUSE, context) itself
ExecutorReenters ==
    /\ frames # <<>>
    /\ Top.running
    /\ frames[1].made < MaxNested
    /\ Len(frames) < MaxDepth
    /\ \E tool_name \in NestedToolNames :
        frames' = Append([WithTop([Top EXCEPT !.nested = @ + 1]) EXCEPT ![1].made = @ + 1],
                         Frame(Top.type_str, tool_name))
    /\ UNCHANGED <<hookVars, cmdRun, prep, hookRun, parsed, tools, bridgeVars>>

\* the executor returns or raises; the hook is recorded as fired if it is a
\* once hook, and the result is handled (lines 237-246, 151-158)
ExecutorReturns ==
    /\ frames # <<>>
    /\ Top.running
    /\ \E reply \in NestedReplies :
        frames' = WithTop(Resolved(Top, ReplyResult(reply)))
    /\ executed_once_hooks' = MarkOnce(TopHook, TopId, executed_once_hooks)
    /\ UNCHANGED <<hooks, prompt_executor, agent_executor, dispatched, calls, lastCall>>
    /\ UNCHANGED <<cmdRun, prep, hookRun, parsed, tools, bridgeVars>>

\* execute returns: after the last hook, or at the hook that resolved to BLOCK;
\* a call made by an executor returns to that executor
ReturnFromExecute ==
    /\ frames # <<>>
    /\ ~Top.running
    /\ Top.stopped # 0 \/ Top.i > Len(TopHooks)
    /\ frames' =
        IF Len(frames) = 1 THEN <<>>
        ELSE [SubSeq(frames, 1, Len(frames) - 1) EXCEPT
                ![Len(frames) - 1].inner =
                    [done |-> TRUE, tool_name |-> Top.tool_name, ran |-> Top.ran,
                     below |-> Top.below, stopped |-> Top.stopped],
                ![Len(frames) - 1].below = @ \cup Top.ran \cup Top.below]
    /\ UNCHANGED <<hookVars, cmdRun, prep, hookRun, parsed, tools, bridgeVars>>

NextNested ==
    \/ LoadNestedHooks
    \/ RegisterNestedExecutor
    \/ BeginExecute
    \/ SkipHook
    \/ CallExecutor
    \/ ExecuteWithoutExecutor
    \/ ExecutorReenters
    \/ ExecutorReturns
    \/ ReturnFromExecute

SpecNested == Init /\ [][NextNested]_vars

\* the hook a frame is at
HookAt(frame) == HooksOf(hooks, frame.type_str)[frame.i]

\* C28: the identity of a once hook is added to the fired set only when its
\* execution has returned: while the executor runs for a once hook and has made
\* no call of its own, the identity is not in the set; and during the first call
\* of execute the executor makes, for the same event type and a tool name the
\* hook matches, the hook is executed again, by that call or by a call made from
\* within it, unless that call ended at an earlier BLOCK.
C28_MarkedAfterExecution ==
    \A n \in 1..Len(frames) :
        (frames[n].running /\ HookAt(frames[n]).once) =>
            /\ frames[n].nested = 0 =>
                    HookId(frames[n].type_str, HookAt(frames[n])) \notin executed_once_hooks
            /\ (/\ frames[n].inner.done
                /\ frames[n].nested = 1
                /\ Matches(HookAt(frames[n]).matcher, frames[n].inner.tool_name)
                /\ (frames[n].inner.stopped = 0 \/ frames[n].inner.stopped >= frames[n].i))
                    => frames[n].i \in frames[n].inner.ran \cup frames[n].inner.below

\* C28 witness: the executor running for a once hook has called execute, that
\* call has returned after executing the same hook, which has now been executed
\* twice, and the outer execution has not yet returned.
C28_Witness ==
    /\ Len(frames) = 1
    /\ Top.running
    /\ TopHook.once
    /\ Top.inner.done
    /\ Top.nested = 1
    /\ Top.i \in Top.inner.ran
    /\ dispatched[Top.type_str][Top.i] = 2
    /\ TopId \in executed_once_hooks

--------------------------------------------------------------------------
(* A load pass followed by calls of HookEngine.execute and
   CommandExecutor.prepare_prompt *)

\* the project on disk: two commands, one of them with a hook in its
\* frontmatter, with and without a plugin that brings a hooks.json
FrameDisks ==
    {[root |-> [name |-> <<"r","o","o","t">>, is_dir |-> TRUE, plugin_json |-> Missing,
                tree |-> (s_claude \o s_commands :> <<BarProject, FooProject>>),
                hooks_json |-> Missing, mcp_json |-> Missing],
      local_plugin |-> FALSE, plugin_dirs |-> dirs, bridge_plugins |-> <<>>] :
        dirs \in {<<>>, <<PlugWhole>>}}

\* the hook dictionaries handed to load_hooks: a once hook for every tool and
\* a hook without the flag
FramePool ==
    {[command |-> s_c1, once |-> TRUE],
     [matcher |-> s_WriteOrEdit, command |-> s_c2]}

\* the arguments of prepare_prompt, the files it can read and what its shell runs
FrameArgs == {<<s_atf>>}
FrameFiles == [project |-> (s_f :> FileOf(s_runc)), absolute |-> <<>>]
FrameShell == (s_c :> Exit(0, s_o \o s_nl, <<>>))

InitFrame ==
    /\ InitHooks
    /\ IdleCommandHook
    /\ IdlePrompt
    /\ IdleCalls
    /\ fs \in FrameDisks
    /\ registry = BridgeRegistry
    /\ bridge_registry = None
    /\ loads = 0
    /\ outcome = [op |-> "none"]

\* BridgeLoader.load_all, before any dispatch
FrameLoadAll ==
    /\ calls = 0
    /\ IdlePrompt
    /\ LoadAll

\* HookEngine.load_hooks with hook dictionaries of FramePool for PreToolUse,
\* before any dispatch
FrameLoadHooks ==
    /\ calls = 0
    /\ IdlePrompt
    /\ Total(hooks) < MaxHooks
    /\ \E hook_list \in HookLists(FramePool, MaxHooks - Total(hooks)) :
        /\ hooks' = load_hooks(hooks, (s_PreToolUse :> hook_list))
        /\ dispatched' = [t \in DOMAIN hooks' |->
                            [i \in 1..Len(hooks'[t]) |->
                                IF t \in DOMAIN hooks /\ i <= Len(hooks[t])
                                THEN dispatched[t][i] ELSE 0]]
    /\ UNCHANGED <<executed_once_hooks, prompt_executor, agent_executor, calls, lastCall>>
    /\ UNCHANGED <<cmdRun, prep, callVars, bridgeVars>>

\* HookEngine.execute(HookType.PRETOOLUSE, context) once the registry is loaded
FrameExecute ==
    /\ loads > 0
    /\ calls < MaxCalls
    /\ \E tool_name \in OnceToolNames :
        \E env \in OnceEnvSeqs(HooksOf(hooks, s_PreToolUse), tool_name) :
            ExecuteWith(s_PreToolUse, tool_name, env)

\* CommandExecutor.prepare_prompt(command, arguments) for a command of the
\* loaded registry
FramePrepare ==
    /\ loads > 0
    /\ \E name \in DOMAIN registry.commands.map, arguments \in FrameArgs :
        \E out \in {prepare_prompt(registry.commands.map[name].content, arguments,
                                   FrameFiles, FrameShell)} :
            prep' = [phase |-> "returned",
                     content |-> registry.commands.map[name].content,
                     arguments |-> arguments, files |-> FrameFiles, shell |-> FrameShell,
                     substituted |-> out.substituted, resolved |-> out.resolved,
                     prompt |-> out.prompt, raised |-> out.raised]
    /\ UNCHANGED <<hookVars, cmdRun, callVars, bridgeVars>>

NextFrame ==
    \/ FrameLoadAll
    \/ FrameLoadHooks
    \/ FrameExecute
    \/ FramePrepare

SpecFrame == InitFrame /\ [][NextFrame]_vars

\* C27: a call of execute or of prepare_prompt after a load pass leaves the
\* registry (commands, subagents, skills, plugins, hook mappings and its own
\* once set), the engine's per-event hook lists, its executors and the disk as
\* they were, and the engine's once-hook tracking set changes only in a step
\* that is a call of execute.
C27_DispatchChangesOnlyOnceSet ==
    /\ [][(calls' # calls \/ prep' # prep) =>
            /\ registry' = registry
            /\ hooks' = hooks
            /\ prompt_executor' = prompt_executor
            /\ agent_executor' = agent_executor
            /\ fs' = fs]_vars
    /\ [][executed_once_hooks' # executed_once_hooks =>
            calls' = calls + 1 /\ prep' = prep]_vars

\* C27 witness: after one load pass that filled the registry, execute has been
\* called twice and prepare_prompt has produced a prompt that differs from the
\* command's content; a once hook was recorded, and the registry is still what
\* load_all made of the disk and the engine still lists the once hook.
C27_Witness ==
    /\ loads = 1
    /\ calls = 2
    /\ prep.phase = "returned"
    /\ prep.prompt # prep.content
    /\ executed_once_hooks # {}
    /\ registry = load_all(BridgeRegistry, fs)
    /\ registry.commands.keys # <<>>
    /\ registry.hooks.keys # <<>>
    /\ \E i \in 1..Len(HooksOf(hooks, s_PreToolUse)) :
        /\ hooks[s_PreToolUse][i].once
        /\ HookId(s_PreToolUse, hooks[s_PreToolUse][i]) \in executed_once_hooks

====
